---- MODULE Spec2Model ----
(***************************************************************************)
(* Model of the risk-profiler survey core:                                 *)
(*   - run_domain1_survey   (src/agents/domain1_agent.py)                  *)
(*   - Domain1Data.from_answers and its helpers (src/models/domain1.py)    *)
(*   - the category normalizers (src/models/domain2.py)                    *)
(*   - risk scoring of Domain1Data and Domain2Data                         *)
(*   - coerce_model_output_to_dict (src/util.py)                           *)
(*   - SurveySession, the sessions dict and the event handlers of the web  *)
(*     application (src/app.py); a handler call is a coroutine that may be *)
(*     suspended at each await while other calls run                       *)
(*                                                                         *)
(* Conventions.                                                            *)
(*   Optional[T]   : <<>> is None, <<v>> is the value v.                   *)
(*   respondent    : an input line is the sequence of its \b-delimited     *)
(*                   tokens; a run of white space is one token " ".        *)
(*   field values  : a string is the sequence of its characters.           *)
(*   transcript    : a line is a record [tag, kind, q]; q is the question  *)
(*                   index the line belongs to (the index that was current *)
(*                   when it was appended).                                *)
(***************************************************************************)
EXTENDS Integers, Sequences, FiniteSets, TLC

VARIABLES
    pc,             \* control point of run_domain1_survey
    q_idx,          \* current question index
    followup_used,  \* followup_used[i], one flag per question
    n_children,     \* Optional[int], set from the OK answer to Q1
    history,        \* deps.conversation_history
    keyed,          \* the line input() returned in the current turn
    nreads,         \* number of input() calls made so far
    outcome,        \* how run_domain1_survey ended ("running" until it does)
    answers,        \* the flat field map handed to Domain1Data.from_answers
    strict_len,     \* the strict_len argument of from_answers
    built,          \* what from_answers produced (<<>> until it has run)
    arg,            \* the extractor's result; the argument of the normalizer /
                    \* scoring / adapter call
    ret,            \* what that call returned (<<>> until it has run)
    sessions,       \* app.py: the global dict, session id -> SurveySession (0: absent)
    objects,        \* app.py: the SurveySession objects created so far
    tasks,          \* app.py: the event-handler coroutines started so far
    files,          \* app.py: survey_results/, the session saved in each file, by age
    chatbot         \* app.py: the session ids whose Chatbot history is not empty

vars == <<pc, q_idx, followup_used, n_children, history, keyed,
          nreads, outcome, answers, strict_len, built, arg, ret,
          sessions, objects, tasks, files, chatbot>>

appvars == <<sessions, objects, tasks, files, chatbot>>

(***************************************************************************)
(* Bounds                                                                  *)
(***************************************************************************)
\* input() calls per session explored
MaxReads == 7
\* input() calls per session explored when the validator honours its contract
MaxContractReads == 13
\* event-handler calls the web application receives
MaxSubmissions == 2

\* session ids a browser tab holds from page load, and ids made by New Survey
InitialIds == {"s1"}
GeneratedIds == {"s2"}
SessionIds == InitialIds \cup GeneratedIds

\* the web application has not been started
AppIdle ==
    /\ sessions = [s \in SessionIds |-> 0]
    /\ objects = <<>>
    /\ tasks = <<>>
    /\ files = <<>>
    /\ chatbot = {}

\* highest child index that occurs in a field map
MaxChild == 2

None == <<>>
Some(v) == <<v>>

NumQuestions == 6
QIdx == 0 .. (NumQuestions - 1)

Max(a, b) == IF a >= b THEN a ELSE b

(***************************************************************************)
(* Respondent input: token sequences                                       *)
(***************************************************************************)
WS == " "

\* str.lower() on a token
LowerTok(t) ==
    CASE t = "None" -> "none"
      [] t = "NO"   -> "no"
      [] t = "Two"  -> "two"
      [] OTHER      -> t

\* decimal value of a token matched by [0-9]+, -1 when it is not all digits
DigitTok(t) ==
    CASE t = "0"  -> 0
      [] t = "1"  -> 1
      [] t = "2"  -> 2
      [] t = "3"  -> 3
      [] t = "4"  -> 4
      [] t = "20" -> 20
      [] OTHER    -> -1

RECURSIVE LStrip(_)
LStrip(s) == IF s # <<>> /\ Head(s) = WS THEN LStrip(Tail(s)) ELSE s

RECURSIVE RStrip(_)
RStrip(s) ==
    IF s # <<>> /\ s[Len(s)] = WS THEN RStrip(SubSeq(s, 1, Len(s) - 1)) ELSE s
\* faulty variant of Strip: the line is used as typed
Strip_unstripped(s) == s


\* str.strip()
Strip(s) == RStrip(LStrip(s))

\* the lines the respondent may type
RawInputs ==
    { <<>>, <<WS>>,
      <<"0">>, <<WS, "1", WS>>, <<"2">>, <<"3">>,
      <<"None">>, <<"NO", WS, "kids">>,
      <<"3", WS, "or", WS, "2">>, <<"maybe">> }

(***************************************************************************)
(* _extract_int_0_2                                                        *)
(***************************************************************************)
HasTok(s, w) == \E i \in 1 .. Len(s) : s[i] = w

\* position of the first token matched by \b([0-9]+)\b, 0 when none
FirstNumber(s) ==
    IF \E i \in 1 .. Len(s) : DigitTok(s[i]) >= 0
    THEN CHOOSE i \in 1 .. Len(s) :
             /\ DigitTok(s[i]) >= 0
             /\ \A j \in 1 .. (i - 1) : DigitTok(s[j]) < 0
    ELSE 0

\* tokens in which \bchild|children|kid|kids\b finds a match
ChildWord(t) == t \in {"child", "children", "kid", "kids", "kidding"}
\* faulty variant of _extract_int_0_2: the numeral is returned without the
\* "v in (0, 1, 2)" test
_extract_int_any(text) ==
    LET s == [i \in 1 .. Len(Strip(text)) |-> LowerTok(Strip(text)[i])]
        m == FirstNumber(s)
    IN  IF HasTok(s, "zero") THEN Some(0)
        ELSE IF HasTok(s, "none") THEN Some(0)
        ELSE IF HasTok(s, "one") THEN Some(1)
        ELSE IF HasTok(s, "two") THEN Some(2)
        ELSE IF m > 0 THEN Some(DigitTok(s[m]))
        ELSE IF HasTok(s, "no") /\ (\E i \in 1 .. Len(s) : ChildWord(s[i]))
             THEN Some(0)
        ELSE None


_extract_int_0_2(text) ==
    LET s == [i \in 1 .. Len(Strip(text)) |-> LowerTok(Strip(text)[i])]
        m == FirstNumber(s)
    IN  IF HasTok(s, "zero") THEN Some(0)
        ELSE IF HasTok(s, "none") THEN Some(0)
        ELSE IF HasTok(s, "one") THEN Some(1)
        ELSE IF HasTok(s, "two") THEN Some(2)
        ELSE IF m > 0 /\ DigitTok(s[m]) \in {0, 1, 2} THEN Some(DigitTok(s[m]))
        ELSE IF HasTok(s, "no") /\ (\E i \in 1 .. Len(s) : ChildWord(s[i]))
             THEN Some(0)
        ELSE None

(***************************************************************************)
(* Transcript lines                                                        *)
(***************************************************************************)
AskLine(idx)      == [tag |-> "Agent", kind |-> "question", q |-> idx]
FollowupLine(idx) == [tag |-> "Agent", kind |-> "followup", q |-> idx]
AnswerLine(idx)   == [tag |-> "Respondent", kind |-> "answer", q |-> idx]
NaUnclear(idx)    == [tag |-> "System", kind |-> "na_unclear", q |-> idx]
NaSkipped(idx)    == [tag |-> "System", kind |-> "na_not_applicable", q |-> idx]
CompleteLine      == [tag |-> "Agent", kind |-> "complete", q |-> NumQuestions]

(***************************************************************************)
(* run_domain1_survey: local helpers                                       *)
(***************************************************************************)
\* faulty variant of should_skip: a count of 0 skips the second child only
should_skip_zero_short(idx, n) ==
    IF idx = 0 THEN FALSE
    ELSE IF n = None THEN FALSE
    ELSE IF n = Some(0) /\ idx \in {3, 4} THEN TRUE
    ELSE IF n = Some(1) /\ idx \in {3, 4} THEN TRUE
    ELSE FALSE

\* faulty variant of should_skip: the count-of-1 case is missing
should_skip_no_one(idx, n) ==
    IF idx = 0 THEN FALSE
    ELSE IF n = None THEN FALSE
    ELSE IF n = Some(0) /\ idx \in {1, 2, 3, 4} THEN TRUE
    ELSE FALSE


should_skip(idx, n) ==
    IF idx = 0 THEN FALSE
    ELSE IF n = None THEN FALSE
    ELSE IF n = Some(0) /\ idx \in {1, 2, 3, 4} THEN TRUE
    ELSE IF n = Some(1) /\ idx \in {3, 4} THEN TRUE
    ELSE FALSE

\* the index reached by   while q_idx < 6 and should_skip(q_idx): q_idx += 1
RECURSIVE SkipTo(_, _)
SkipTo(idx, n) ==
    IF idx < NumQuestions /\ should_skip(idx, n) THEN SkipTo(idx + 1, n) ELSE idx

\* faulty variant of SkipLines: the skipped questions get no NA record
SkipLines_silent(idx, n) == <<>>

\* the record_na lines that loop appends
RECURSIVE SkipLines(_, _)
SkipLines(idx, n) ==
    IF idx < NumQuestions /\ should_skip(idx, n)
    THEN <<NaSkipped(idx)>> \o SkipLines(idx + 1, n)
    ELSE <<>>
\* faulty variant of AdvanceIdx: the  q_idx += 1  is missing
AdvanceIdx_stay(idx, n) == SkipTo(idx, n)


\* q_idx += 1; the skip loop; if q_idx < 6: ask_question(q_idx)
AdvanceIdx(idx, n) == SkipTo(idx + 1, n)

AdvanceLines(idx, n) ==
    SkipLines(idx + 1, n)
        \o (IF AdvanceIdx(idx, n) < NumQuestions
            THEN <<AskLine(AdvanceIdx(idx, n))>> ELSE <<>>)

(***************************************************************************)
(* Raw values of the extracted field map (Dict[str, Any])                  *)
(***************************************************************************)
VNone    == [t |-> "none", b |-> FALSE, n |-> 0, s |-> <<>>]
VBool(x) == [t |-> "bool", b |-> x, n |-> 0, s |-> <<>>]
VInt(x)  == [t |-> "int", b |-> FALSE, n |-> x, s |-> <<>>]
VStr(x)  == [t |-> "str", b |-> FALSE, n |-> 0, s |-> x]
\* a JSON array of objects: s is the sequence of its items, each a map
VList(x) == [t |-> "list", b |-> FALSE, n |-> 0, s |-> x]

DigitChars == <<"0", "1", "2", "3", "4", "5", "6", "7", "8", "9">>
UpperChars ==
    <<"A", "B", "C", "D", "E", "F", "G", "H", "I", "J", "K", "L", "M",
      "N", "O", "P", "Q", "R", "S", "T", "U", "V", "W", "X", "Y", "Z">>
LowerChars ==
    <<"a", "b", "c", "d", "e", "f", "g", "h", "i", "j", "k", "l", "m",
      "n", "o", "p", "q", "r", "s", "t", "u", "v", "w", "x", "y", "z">>

IsDigit(c) == \E i \in 1 .. 10 : DigitChars[i] = c
DigitVal(c) == (CHOOSE i \in 1 .. 10 : DigitChars[i] = c) - 1

LowerChar(c) ==
    IF \E i \in 1 .. 26 : UpperChars[i] = c
    THEN LowerChars[CHOOSE i \in 1 .. 26 : UpperChars[i] = c]
    ELSE c

\* str.lower()
Lower(s) == [i \in 1 .. Len(s) |-> LowerChar(s[i])]

\* str(n) for a non-negative int
RECURSIVE NatToStr(_)
NatToStr(n) ==
    IF n < 10 THEN <<DigitChars[n + 1]>>
    ELSE NatToStr(n \div 10) \o <<DigitChars[(n % 10) + 1]>>

\* str(n) for an int
IntToStr(n) == IF n < 0 THEN <<"-">> \o NatToStr(0 - n) ELSE NatToStr(n)

\* str(x)
PyStr(x) ==
    CASE x.t = "str"  -> x.s
      [] x.t = "int"  -> IntToStr(x.n)
      [] x.t = "bool" -> IF x.b THEN <<"T", "r", "u", "e">>
                                ELSE <<"F", "a", "l", "s", "e">>
      [] OTHER        -> <<"N", "o", "n", "e">>

RECURSIVE DigitsVal(_)
DigitsVal(s) ==
    IF s = <<>> THEN 0
    ELSE 10 * DigitsVal(SubSeq(s, 1, Len(s) - 1)) + DigitVal(s[Len(s)])

AllDigits(s) == s # <<>> /\ \A i \in 1 .. Len(s) : IsDigit(s[i])

\* int(s): None when int() raises
ParseInt(s) ==
    LET u == Strip(s)
    IN  IF AllDigits(u) THEN Some(DigitsVal(u))
        ELSE IF u # <<>> /\ u[1] = "-" /\ AllDigits(Tail(u))
             THEN Some(0 - DigitsVal(Tail(u)))
        ELSE IF u # <<>> /\ u[1] = "+" /\ AllDigits(Tail(u))
             THEN Some(DigitsVal(Tail(u)))
        ELSE None

(***************************************************************************)
(* small parsing helpers of models/domain1.py                              *)
(***************************************************************************)
_NA_STRINGS ==
    { <<"n", "a">>, <<"n", "/", "a">>, <<"n", "u", "l", "l">>,
      <<"n", "o", "n", "e">>, <<"u", "n", "k", "n", "o", "w", "n">>, <<>> }

_to_int_or_none(x) ==
    IF x.t = "none" THEN None
    ELSE IF Lower(Strip(PyStr(x))) \in _NA_STRINGS THEN None
    ELSE ParseInt(Strip(PyStr(x)))

_to_bool_or_none(x) ==
    IF x.t = "none" THEN None
    ELSE IF x.t = "bool" THEN Some(x.b)
    ELSE LET v == Lower(Strip(PyStr(x)))
         IN  IF v \in { <<"1">>, <<"t", "r", "u", "e">>, <<"t">>,
                        <<"y", "e", "s">>, <<"y">> } THEN Some(TRUE)
             ELSE IF v \in { <<"0">>, <<"f", "a", "l", "s", "e">>, <<"f">>,
                             <<"n", "o">>, <<"n">> } THEN Some(FALSE)
             ELSE None

\* bool(v): the truth value Python gives v in  `v or ""`
Truthy(x) ==
    CASE x.t = "none" -> FALSE
      [] x.t = "bool" -> x.b
      [] x.t = "int"  -> x.n # 0
      [] OTHER        -> x.s # <<>>

\* CaregiverType.from_llm_value
from_llm_value(v) ==
    LET s == IF Truthy(v) THEN Strip(PyStr(v)) ELSE <<>>
    IN  CASE s = <<"B", "o", "t", "h", " ", "p", "a", "r", "e", "n", "t", "s">>
               -> "BOTH_PARENTS"
          [] s = <<"S", "i", "n", "g", "l", "e", " ", "m", "o", "t", "h", "e", "r">>
               -> "SINGLE_MOTHER"
          [] s = <<"S", "i", "n", "g", "l", "e", " ", "f", "a", "t", "h", "e", "r">>
               -> "SINGLE_FATHER"
          [] s = <<"G", "r", "a", "n", "d", "p", "a", "r", "e", "n", "t">>
               -> "GRANDPARENT"
          [] s = <<"O", "t", "h", "e", "r", " ", "r", "e", "l", "a", "t", "i", "v", "e">>
               -> "OTHER_RELATIVE"
          [] s = <<"O", "t", "h", "e", "r">> -> "OTHER"
          [] OTHER -> "UNKNOWN"

(***************************************************************************)
(* Field-map keys                                                          *)
(***************************************************************************)
RECURSIVE Join(_)
Join(s) == IF s = <<>> THEN "" ELSE Head(s) \o Join(Tail(s))

MalFields == {"malnutrition", "malnourished", "mal", "is_malnourished"}

\* f"child{i}_{f}"
ChildKey(i, f) == "child" \o Join(IntToStr(i)) \o "_" \o f
\* f"age_child{i}"
AgeChildKey(i) == "age_child" \o Join(IntToStr(i))

\* the keys the two key patterns of from_answers match, each with the child
\* index the pattern reads off it
IndexedKeys ==
    {<<AgeChildKey(i), i>> : i \in 0 .. MaxChild}
        \cup {<<ChildKey(i, f), i>> : i \in 0 .. MaxChild, f \in MalFields \cup {"age"}}

KeyIndexTable ==
    [key \in {p[1] : p \in IndexedKeys} |->
        (CHOOSE p \in IndexedKeys : p[1] = key)[2]]

\* the child index the two key patterns of from_answers read off a key
\* (0 when neither matches)
KeyIndex(key) ==
    IF key \in DOMAIN KeyIndexTable THEN KeyIndexTable[key] ELSE 0

\* answers.get(key, default)
Get(a, key, default) == IF key \in DOMAIN a THEN a[key] ELSE default

RECURSIVE SetMax(_)
SetMax(S) ==
    IF S = {} THEN 0
    ELSE LET x == CHOOSE y \in S : TRUE IN Max(x, SetMax(S \ {x}))

(***************************************************************************)
(* Domain1Data.from_answers                                                *)
(***************************************************************************)
\* ChildInfo.age_months: Optional[int] = Field(None, ge=0, le=60)
AgeMin == 0
AgeMax == 60
ChildInfoValid(age) == age = None \/ (age[1] >= AgeMin /\ age[1] <= AgeMax)

\* infer max child index from keys
MaxIndex(a) == SetMax({KeyIndex(key) : key \in DOMAIN a})

\* faulty variant of DeclaredN: the inferred count is preferred
DeclaredN_inferred_first(a) ==
    LET raw_n      == Get(a, "num_children_under_5", Get(a, "num_children", VNone))
        n_explicit == _to_int_or_none(raw_n)
        n_inferred == IF MaxIndex(a) > 0 THEN Some(MaxIndex(a)) ELSE None
        n          == IF n_inferred # None THEN n_inferred ELSE n_explicit
    IN  IF n # None /\ n[1] < 0 THEN Some(0) ELSE n

\* number of children (explicit preferred, else inferred), negative set to 0
DeclaredN(a) ==
    LET raw_n      == Get(a, "num_children_under_5", Get(a, "num_children", VNone))
        n_explicit == _to_int_or_none(raw_n)
        n_inferred == IF MaxIndex(a) > 0 THEN Some(MaxIndex(a)) ELSE None
        n          == IF n_explicit # None THEN n_explicit ELSE n_inferred
    IN  IF n # None /\ n[1] < 0 THEN Some(0) ELSE n

ChildAge(a, i) ==
    _to_int_or_none(Get(a, ChildKey(i, "age"), Get(a, AgeChildKey(i), VNone)))

ChildMal(a, i) ==
    _to_bool_or_none(
        Get(a, ChildKey(i, "malnutrition"),
            Get(a, ChildKey(i, "malnourished"),
                Get(a, ChildKey(i, "mal"),
                    Get(a, ChildKey(i, "is_malnourished"), VNone)))))

\* the sub-records a nested list of child objects states
NestedChildren(v) ==
    [j \in 1 .. Len(v.s) |->
        [age_months |-> _to_int_or_none(v.s[j].age_months),
         has_malnutrition_signs |-> _to_bool_or_none(v.s[j].has_malnutrition_signs)]]

\* faulty variant of BuildChildren: a nested "children" list is preferred
RECURSIVE BuildChildren_nested(_, _, _)
BuildChildren_nested(a, i, upper) ==
    IF "children" \in DOMAIN a
    THEN [raised |-> FALSE, list |-> NestedChildren(a["children"])]
    ELSE IF i > upper THEN [raised |-> FALSE, list |-> <<>>]
    ELSE LET age  == ChildAge(a, i)
             mal  == ChildMal(a, i)
             rest == BuildChildren_nested(a, i + 1, upper)
         IN  IF age = None /\ mal = None THEN rest
             ELSE IF ~ChildInfoValid(age) THEN [raised |-> TRUE, list |-> <<>>]
             ELSE IF rest.raised THEN rest
             ELSE [raised |-> FALSE,
                   list |-> <<[age_months |-> age, has_malnutrition_signs |-> mal]>>
                                \o rest.list]

\* faulty variant of BuildChildren: a child without any known field is
\* padded with a default ChildInfo(age_months=0, has_malnutrition_signs=False)
RECURSIVE BuildChildren_padded(_, _, _)
BuildChildren_padded(a, i, upper) ==
    IF i > upper THEN [raised |-> FALSE, list |-> <<>>]
    ELSE LET age  == ChildAge(a, i)
             mal  == ChildMal(a, i)
             rest == BuildChildren_padded(a, i + 1, upper)
         IN  IF ~ChildInfoValid(age) THEN [raised |-> TRUE, list |-> <<>>]
             ELSE IF rest.raised THEN rest
             ELSE IF age = None /\ mal = None
             THEN [raised |-> FALSE,
                   list |-> <<[age_months |-> Some(0),
                               has_malnutrition_signs |-> Some(FALSE)]>>
                                \o rest.list]
             ELSE [raised |-> FALSE,
                   list |-> <<[age_months |-> age, has_malnutrition_signs |-> mal]>>
                                \o rest.list]

\* for i in range(i, upper + 1): append a ChildInfo when age or mal is known;
\* raised is TRUE when a ChildInfo(...) construction fails validation
RECURSIVE BuildChildren(_, _, _)
BuildChildren(a, i, upper) ==
    IF i > upper THEN [raised |-> FALSE, list |-> <<>>]
    ELSE LET age  == ChildAge(a, i)
             mal  == ChildMal(a, i)
             rest == BuildChildren(a, i + 1, upper)
         IN  IF age = None /\ mal = None THEN rest
             ELSE IF ~ChildInfoValid(age) THEN [raised |-> TRUE, list |-> <<>>]
             ELSE IF rest.raised THEN rest
             ELSE [raised |-> FALSE,
                   list |-> <<[age_months |-> age, has_malnutrition_signs |-> mal]>>
                                \o rest.list]

\* the result is [status, rec]: status "ok" with rec = <<record>>, or the
\* exception raised with rec = <<>>
from_answers(a, strict) ==
    LET n        == DeclaredN(a)
        upper    == IF n # None /\ n[1] > MaxIndex(a) THEN n[1] ELSE MaxIndex(a)
        children == BuildChildren(a, 1, upper)
    IN  IF children.raised THEN [status |-> "ValidationError", rec |-> <<>>]
        ELSE IF strict /\ n # None /\ Len(children.list) # n[1]
             THEN [status |-> "ValueError", rec |-> <<>>]
        ELSE [status |-> "ok",
              rec |-> <<[num_children_under_5 |-> n,
                         children |-> children.list,
                         has_elderly_members |->
                             _to_bool_or_none(Get(a, "has_elderly_members",
                                                  Get(a, "elderly", VNone))),
                         has_immunocompromised_members |->
                             _to_bool_or_none(Get(a, "has_immunocompromised_members",
                                                  Get(a, "immunocompromised", VNone))),
                         primary_caregiver |->
                             from_llm_value(Get(a, "primary_caregiver",
                                 Get(a, "caregiver",
                                     VStr(<<"U", "n", "k", "n", "o", "w", "n">>))))]>>]

(***************************************************************************)
(* The field maps explored                                                 *)
(***************************************************************************)
CountValues ==
    { VInt(0), VInt(2), VInt(-1), VStr(<<" ", "1", " ">>), VStr(<<"N", "A">>) }
AgeValues == { VInt(10), VInt(61), VStr(<<"n", "a">>) }
MalValues == { VBool(TRUE), VStr(<<"n", "o">>) }
\* a nested list of child objects, the shape Domain1Data.children dumps to
NestedValues ==
    { VList(<<[age_months |-> VInt(24), has_malnutrition_signs |-> VBool(FALSE)]>>) }

FieldKeys ==
    {"num_children_under_5", "num_children", AgeChildKey(1), "children"}
        \cup {ChildKey(i, "age") : i \in 1 .. MaxChild}
        \cup {ChildKey(i, "malnutrition") : i \in 1 .. MaxChild}

ValuesOf(key) ==
    IF key = "num_children_under_5" THEN CountValues
    ELSE IF key = "num_children" THEN {VInt(1)}
    ELSE IF key = AgeChildKey(1) THEN {VStr(<<"7">>)}
    ELSE IF key = "children" THEN NestedValues
    ELSE IF \E i \in 1 .. MaxChild : key = ChildKey(i, "age") THEN AgeValues
    ELSE MalValues

EmptyMap == [k \in {} |-> VNone]

Extend(m, k, v) == [x \in (DOMAIN m) \cup {k} |-> IF x = k THEN v ELSE m[x]]

\* every map that gives some of the keys K one of their values
RECURSIVE MapsOver(_)
MapsOver(K) ==
    IF K = {} THEN {EmptyMap}
    ELSE LET k == CHOOSE x \in K : TRUE
             R == MapsOver(K \ {k})
         IN  R \cup {Extend(m, k, v) : m \in R, v \in ValuesOf(k)}

FieldMaps == MapsOver(FieldKeys)

\* what the extraction agent may hand back at the end of a session
ExtractorOutputs ==
    { EmptyMap,
      [k \in {"num_children_under_5", ChildKey(1, "age"), ChildKey(1, "malnutrition")}
          |-> IF k = "num_children_under_5" THEN VInt(2)
              ELSE IF k = ChildKey(1, "age") THEN VInt(10) ELSE VBool(TRUE)],
      [k \in {"num_children_under_5", ChildKey(1, "age")}
          |-> IF k = "num_children_under_5" THEN VInt(1) ELSE VInt(61)] }

\* the values extraction_result.output can have: a field map, free text, a
\* model response object, or nothing
ExtractorResults ==
    {[kind |-> "dict", dict |-> d, text |-> <<>>] : d \in ExtractorOutputs}
      \cup {[kind |-> "str", dict |-> EmptyMap, text |-> t] :
               t \in {<<>>, <<"1", " ", "c", "h", "i", "l", "d">>}}
      \cup {[kind |-> "object", dict |-> EmptyMap, text |-> <<>>],
            [kind |-> "none", dict |-> EmptyMap, text |-> <<>>]}

\* the truth value Python gives the extractor's result
OutputTruthy(out) ==
    CASE out.kind = "dict"   -> out.dict # EmptyMap
      [] out.kind = "str"    -> out.text # <<>>
      [] out.kind = "object" -> TRUE
      [] OTHER               -> FALSE

\* extraction_result.output or {}
OrEmptyMap(out) ==
    IF OutputTruthy(out) THEN out
    ELSE [kind |-> "dict", dict |-> EmptyMap, text |-> <<>>]

\* Domain1Data.from_answers(answers, strict_len=False) on that value:
\* answers.keys() raises AttributeError on anything that is not a map
from_result(out) ==
    IF OrEmptyMap(out).kind = "dict"
    THEN from_answers(OrEmptyMap(out).dict, FALSE)
    ELSE [status |-> "AttributeError", rec |-> <<>>]

(***************************************************************************)
(* run_domain1_survey                                                      *)
(***************************************************************************)
\* user_input = input("You: ").strip()
user_input == Strip(keyed)

Init ==
    /\ pc = "loop"
    /\ q_idx = 0
    /\ followup_used = [i \in QIdx |-> FALSE]
    /\ n_children = None
    /\ history = <<AskLine(0)>>
    /\ keyed = <<>>
    /\ nreads = 0
    /\ outcome = "running"
    /\ answers = EmptyMap
    /\ strict_len = FALSE
    /\ built = <<>>
    /\ arg = <<>>
    /\ ret = <<>>
    /\ AppIdle

\* one pass over the head of  while q_idx < 6:  up to the validator call,
\* with at most  limit  calls of input() in the run
Prompt(limit) ==
    /\ pc = "loop"
    /\ q_idx < NumQuestions
    /\ IF should_skip(q_idx, n_children)
       THEN /\ history' = history \o <<NaSkipped(q_idx)>>
                  \o (IF q_idx + 1 < NumQuestions
                         /\ ~should_skip(q_idx + 1, n_children)
                      THEN <<AskLine(q_idx + 1)>> ELSE <<>>)
            /\ followup_used' = [followup_used EXCEPT ![q_idx] = FALSE]
            /\ q_idx' = q_idx + 1
            /\ UNCHANGED <<pc, keyed, nreads>>
       ELSE /\ nreads < limit
            /\ \E raw \in RawInputs :
                 /\ keyed' = raw
                 /\ nreads' = nreads + 1
                 /\ IF Strip(raw) = <<>>
                    THEN UNCHANGED <<pc, history>>
                    ELSE /\ history' = Append(history, AnswerLine(q_idx))
                         /\ pc' = "validate"
            /\ UNCHANGED <<q_idx, followup_used>>
    /\ UNCHANGED <<n_children, outcome, answers, strict_len, built>>
    /\ UNCHANGED <<arg, ret>>
    /\ UNCHANGED appvars

LoopTop == Prompt(MaxReads)

\* KeyboardInterrupt raised by input(): caught, return None
InterruptInput ==
    /\ pc = "loop"
    /\ q_idx < NumQuestions
    /\ ~should_skip(q_idx, n_children)
    /\ pc' = "done"
    /\ outcome' = "None"
    /\ UNCHANGED <<q_idx, followup_used, n_children, history, keyed, nreads,
                   answers, strict_len, built>>
    /\ UNCHANGED <<arg, ret>>
    /\ UNCHANGED appvars

\* faulty variant of ValidatorReturns: OK and GIVE_UP leave the flag as it is
ValidatorReturns_flag_kept ==
    /\ pc = "validate"
    /\ \E status \in {"OK", "NEED_FOLLOWUP", "GIVE_UP"} :
         CASE status = "NEED_FOLLOWUP" ->
                /\ followup_used' = [followup_used EXCEPT ![q_idx] = TRUE]
                /\ history' = Append(history, FollowupLine(q_idx))
                /\ UNCHANGED <<q_idx, n_children>>
           [] status = "GIVE_UP" ->
                /\ history' = history \o <<NaUnclear(q_idx)>>
                                  \o AdvanceLines(q_idx, n_children)
                /\ q_idx' = AdvanceIdx(q_idx, n_children)
                /\ UNCHANGED <<n_children, followup_used>>
           [] OTHER ->
                /\ n_children' = IF q_idx = 0 THEN _extract_int_0_2(user_input)
                                 ELSE n_children
                /\ history' = history \o AdvanceLines(q_idx, n_children')
                /\ q_idx' = AdvanceIdx(q_idx, n_children')
                /\ UNCHANGED followup_used
    /\ pc' = "loop"
    /\ keyed' = <<>>
    /\ UNCHANGED <<nreads, outcome, answers, strict_len, built>>
    /\ UNCHANGED <<arg, ret>>
    /\ UNCHANGED appvars

\* faulty variant of ValidatorReturns: NEED_FOLLOWUP does not set the flag
ValidatorReturns_flag_unset ==
    /\ pc = "validate"
    /\ \E status \in {"OK", "NEED_FOLLOWUP", "GIVE_UP"} :
         CASE status = "NEED_FOLLOWUP" ->
                /\ history' = Append(history, FollowupLine(q_idx))
                /\ UNCHANGED <<q_idx, n_children, followup_used>>
           [] status = "GIVE_UP" ->
                /\ history' = history \o <<NaUnclear(q_idx)>>
                                  \o AdvanceLines(q_idx, n_children)
                /\ q_idx' = AdvanceIdx(q_idx, n_children)
                /\ followup_used' = [followup_used EXCEPT ![q_idx] = FALSE]
                /\ UNCHANGED n_children
           [] OTHER ->
                /\ n_children' = IF q_idx = 0 THEN _extract_int_0_2(user_input)
                                 ELSE n_children
                /\ history' = history \o AdvanceLines(q_idx, n_children')
                /\ q_idx' = AdvanceIdx(q_idx, n_children')
                /\ followup_used' = [followup_used EXCEPT ![q_idx] = FALSE]
    /\ pc' = "loop"
    /\ keyed' = <<>>
    /\ UNCHANGED <<nreads, outcome, answers, strict_len, built>>
    /\ UNCHANGED <<arg, ret>>
    /\ UNCHANGED appvars

\* validation_agent.run returns a decision; the rest of the loop body
ValidatorReturns ==
    /\ pc = "validate"
    /\ \E status \in {"OK", "NEED_FOLLOWUP", "GIVE_UP"} :
         CASE status = "NEED_FOLLOWUP" ->
                /\ followup_used' = [followup_used EXCEPT ![q_idx] = TRUE]
                /\ history' = Append(history, FollowupLine(q_idx))
                /\ UNCHANGED <<q_idx, n_children>>
           [] status = "GIVE_UP" ->
                /\ followup_used' = [followup_used EXCEPT ![q_idx] = FALSE]
                /\ history' = history \o <<NaUnclear(q_idx)>>
                                  \o AdvanceLines(q_idx, n_children)
                /\ q_idx' = AdvanceIdx(q_idx, n_children)
                /\ UNCHANGED n_children
           [] OTHER ->
                /\ followup_used' = [followup_used EXCEPT ![q_idx] = FALSE]
                /\ n_children' = IF q_idx = 0 THEN _extract_int_0_2(user_input)
                                 ELSE n_children
                /\ history' = history \o AdvanceLines(q_idx, n_children')
                /\ q_idx' = AdvanceIdx(q_idx, n_children')
    /\ pc' = "loop"
    \* user_input is not read again before the next input() assigns it
    /\ keyed' = <<>>
    /\ UNCHANGED <<nreads, outcome, answers, strict_len, built>>
    /\ UNCHANGED <<arg, ret>>
    /\ UNCHANGED appvars

\* validation_agent.run raises: nothing in run_domain1_survey catches it
ValidatorRaises ==
    /\ pc = "validate"
    /\ pc' = "done"
    /\ outcome' = "ValidatorError"
    /\ UNCHANGED <<q_idx, followup_used, n_children, history, keyed, nreads,
                   answers, strict_len, built>>
    /\ UNCHANGED <<arg, ret>>
    /\ UNCHANGED appvars

\* the interrupt arrives while the validator call is awaited
InterruptValidator ==
    /\ pc = "validate"
    /\ pc' = "done"
    /\ outcome' = "KeyboardInterrupt"
    /\ UNCHANGED <<q_idx, followup_used, n_children, history, keyed, nreads,
                   answers, strict_len, built>>
    /\ UNCHANGED <<arg, ret>>
    /\ UNCHANGED appvars

\* faulty variant of Complete: the loop is left one question early
Complete_early ==
    /\ pc = "loop"
    /\ q_idx >= NumQuestions - 1
    /\ history' = Append(history, CompleteLine)
    /\ pc' = "extract"
    /\ UNCHANGED <<q_idx, followup_used, n_children, keyed, nreads, outcome,
                   answers, strict_len, built>>
    /\ UNCHANGED <<arg, ret>>
    /\ UNCHANGED appvars

\* the while loop ends: the sentinel is appended and the extractor is called
Complete ==
    /\ pc = "loop"
    /\ q_idx >= NumQuestions
    /\ history' = Append(history, CompleteLine)
    /\ pc' = "extract"
    /\ UNCHANGED <<q_idx, followup_used, n_children, keyed, nreads, outcome,
                   answers, strict_len, built>>
    /\ UNCHANGED <<arg, ret>>
    /\ UNCHANGED appvars

\* extraction_agent.run returns; Domain1Data.from_answers(answers, strict_len=False)
ExtractorReturns ==
    /\ pc = "extract"
    /\ \E out \in ExtractorResults :
         /\ arg' = <<out>>
         /\ answers' = OrEmptyMap(out).dict
         /\ built' = <<from_result(out)>>
         /\ outcome' = IF from_result(out).status = "ok" THEN "record"
                       ELSE from_result(out).status
    /\ pc' = "done"
    /\ UNCHANGED <<q_idx, followup_used, n_children, history, keyed, nreads,
                   strict_len>>
    /\ UNCHANGED ret
    /\ UNCHANGED appvars

\* extraction_agent.run raises
ExtractorRaises ==
    /\ pc = "extract"
    /\ pc' = "done"
    /\ outcome' = "ExtractorError"
    /\ UNCHANGED <<q_idx, followup_used, n_children, history, keyed, nreads,
                   answers, strict_len, built>>
    /\ UNCHANGED <<arg, ret>>
    /\ UNCHANGED appvars

\* the interrupt arrives while the extractor call is awaited
InterruptExtractor ==
    /\ pc = "extract"
    /\ pc' = "done"
    /\ outcome' = "KeyboardInterrupt"
    /\ UNCHANGED <<q_idx, followup_used, n_children, history, keyed, nreads,
                   answers, strict_len, built>>
    /\ UNCHANGED <<arg, ret>>
    /\ UNCHANGED appvars

Next ==
    \/ LoopTop
    \/ InterruptInput
    \/ ValidatorReturns
    \/ ValidatorRaises
    \/ InterruptValidator
    \/ Complete
    \/ ExtractorReturns
    \/ ExtractorRaises
    \/ InterruptExtractor

Spec == Init /\ [][Next]_vars

(***************************************************************************)
(* Domain1Data.from_answers applied to every field map explored            *)
(***************************************************************************)
InitBuild ==
    /\ pc = "build"
    /\ q_idx = 0
    /\ followup_used = [i \in QIdx |-> FALSE]
    /\ n_children = None
    /\ history = <<>>
    /\ keyed = <<>>
    /\ nreads = 0
    /\ outcome = "running"
    /\ answers \in FieldMaps
    /\ strict_len \in BOOLEAN
    /\ built = <<>>
    /\ arg = <<>>
    /\ ret = <<>>
    /\ AppIdle

Build ==
    /\ pc = "build"
    /\ LET r == from_answers(answers, strict_len)
       IN  /\ built' = <<r>>
           /\ outcome' = IF r.status = "ok" THEN "record" ELSE r.status
    /\ pc' = "done"
    /\ UNCHANGED <<q_idx, followup_used, n_children, history, keyed, nreads,
                   answers, strict_len>>
    /\ UNCHANGED <<arg, ret>>
    /\ UNCHANGED appvars

NextBuild == Build

SpecBuild == InitBuild /\ [][NextBuild]_vars

(***************************************************************************)
(* Reading the transcript                                                  *)
(***************************************************************************)
\* number of lines of one kind appended for question q
CountKind(h, kind, q) ==
    Cardinality({i \in 1 .. Len(h) : h[i].kind = kind /\ h[i].q = q})

\* the question indices asked, in the order their Agent lines were appended
RECURSIVE AskedSeq(_)
AskedSeq(h) ==
    IF h = <<>> THEN <<>>
    ELSE IF Head(h).kind = "question" THEN <<Head(h).q>> \o AskedSeq(Tail(h))
    ELSE AskedSeq(Tail(h))

\* Q1 left behind without an NA record: it was answered OK
Q1AnsweredOK(h, idx) == idx > 0 /\ CountKind(h, "na_unclear", 0) = 0

\* the child an age/malnutrition question is about (0: not a child question)
ChildOf(q) == IF q \in {1, 2} THEN 1 ELSE IF q \in {3, 4} THEN 2 ELSE 0

\* a line of white space only
Blank(raw) == \A i \in 1 .. Len(raw) : raw[i] = WS

\* the count a one-numeral answer states
StatedCount(text) ==
    IF Len(Strip(text)) = 1 /\ DigitTok(Strip(text)[1]) >= 0
    THEN Some(DigitTok(Strip(text)[1])) ELSE None

Min(a, b) == IF a <= b THEN a ELSE b

(***************************************************************************)
(* C1..C10                                                                 *)
(***************************************************************************)

\* C1: for any answers and any validator verdicts, at most one follow-up is
\* emitted for a question index before it reaches a terminal status.
C1_AtMostOneFollowup ==
    \A q \in QIdx : CountKind(history, "followup", q) <= 1

\* C2: when Q1 is answered OK with a count of 0, Q2-Q5 are each recorded as
\* not applicable right after the answer, none of them is asked or answered,
\* and Q6 is asked exactly once.
C2_CountZeroSkipsToQ6 ==
    n_children = Some(0) =>
        /\ q_idx >= 5
        /\ \A q \in 1 .. 4 :
              /\ CountKind(history, "na_not_applicable", q) = 1
              /\ CountKind(history, "question", q) = 0
              /\ CountKind(history, "answer", q) = 0
              /\ CountKind(history, "followup", q) = 0
        /\ CountKind(history, "question", 5) = 1
        /\ \E i \in 1 .. Len(history) :
              /\ history[i] = AnswerLine(0)
              /\ Len(history) >= i + 5
              /\ SubSeq(history, i + 1, i + 5)
                   = <<NaSkipped(1), NaSkipped(2), NaSkipped(3), NaSkipped(4),
                       AskLine(5)>>

C2_Witness ==
    /\ n_children = Some(0)
    /\ q_idx = 5
    /\ pc = "validate"

\* C3: a question is skipped (recorded NA, never asked) exactly when the
\* count was determined from an OK answer to Q1 as n in {0, 1}, the question
\* is about child k > n and the session has passed it; every other question
\* reached is asked; no question is about a third child.
C3_SkippedIffBeyondCount ==
    /\ \A q \in QIdx :
          (CountKind(history, "na_not_applicable", q) >= 1)
            <=> /\ Q1AnsweredOK(history, q_idx)
                /\ n_children \in {Some(0), Some(1)}
                /\ ChildOf(q) > n_children[1]
                /\ q < q_idx
    /\ \A q \in QIdx :
          CountKind(history, "na_not_applicable", q) >= 1
            => CountKind(history, "question", q) = 0
    /\ \A q \in QIdx :
          (q <= q_idx /\ CountKind(history, "na_not_applicable", q) = 0)
            => CountKind(history, "question", q) = 1
    /\ n_children # None => Q1AnsweredOK(history, q_idx)
    /\ \A i \in 1 .. Len(history) :
          history[i].kind = "question" => ChildOf(history[i].q) <= 2

C3_Witness ==
    /\ n_children = Some(1)
    /\ q_idx = NumQuestions
    /\ CountKind(history, "na_not_applicable", 3) = 1
    /\ CountKind(history, "na_not_applicable", 4) = 1
    /\ CountKind(history, "question", 2) = 1

\* the script left from idx on once the count is n
RemainingScript(idx, n) ==
    SelectSeq(<<0, 1, 2, 3, 4, 5>>, LAMBDA q : q >= idx /\ ~should_skip(q, n))

\* the children with an age/malnutrition pair in the script left from idx on
PairsLeft(idx, n) ==
    {k \in 1 .. 20 :
        \E i \in 1 .. Len(RemainingScript(idx, n)) :
            ChildOf(RemainingScript(idx, n)[i]) = k}

\* C4 as stated: once Q1 is answered OK with count n, the rest of the script
\* holds one age/malnutrition pair for each child 1..min(n, 20), for every
\* n >= 0.
C4_PairsForEveryCount ==
    [][(/\ pc = "validate"
        /\ q_idx = 0
        /\ StatedCount(user_input) # None
        /\ Q1AnsweredOK(history', q_idx'))
          => PairsLeft(q_idx', n_children')
               = 1 .. Min(StatedCount(user_input)[1], 20)]_vars

\* the six-question script for a determined count (None: undetermined)
ScriptFor(n) ==
    <<0>> \o (IF n = Some(0) THEN <<>> ELSE <<1, 2>>)
          \o (IF n \in {Some(0), Some(1)} THEN <<>> ELSE <<3, 4>>)
          \o <<5>>

\* C4 amended: an OK answer to Q1 stating n in {0, 1, 2} determines the count
\* n and the questions asked afterwards are, in order, the pair of each child
\* 1..n and then Q6; an answer stating n >= 3 leaves the count undetermined
\* and the pairs of child 1 and child 2 are asked, then Q6.
C4_PairsUpToTwo ==
    [][/\ Q1AnsweredOK(history', q_idx')
          => AskedSeq(history')
               = SelectSeq(ScriptFor(n_children'), LAMBDA q : q <= q_idx')
       /\ (/\ pc = "validate"
           /\ q_idx = 0
           /\ StatedCount(user_input) # None
           /\ Q1AnsweredOK(history', q_idx'))
            => /\ StatedCount(user_input)[1] <= 2
                  => /\ n_children' = StatedCount(user_input)
                     /\ PairsLeft(q_idx', n_children')
                          = 1 .. StatedCount(user_input)[1]
               /\ StatedCount(user_input)[1] >= 3
                  => /\ n_children' = None
                     /\ PairsLeft(q_idx', n_children') = {1, 2}]_vars

C4_Witness ==
    /\ n_children = Some(2)
    /\ q_idx = NumQuestions
    /\ Q1AnsweredOK(history, q_idx)
    /\ AskedSeq(history) = <<0, 1, 2, 3, 4, 5>>

\* C5: the current index never decreases and each question text is appended
\* as an Agent line at most once in a session.
C5_NeverAskedAgain ==
    [][/\ q_idx' >= q_idx
       /\ \A q \in QIdx : CountKind(history', "question", q) <= 1
       /\ \A q \in QIdx :
             (q < q_idx /\ q_idx' <= NumQuestions)
               => CountKind(history', "question", q)
                    = CountKind(history, "question", q)]_vars

C5_Witness ==
    /\ q_idx = NumQuestions
    /\ CountKind(history, "na_unclear", 0) = 1
    /\ CountKind(history, "question", 5) = 1

\* C6: an empty or white-space-only input consumes no turn: index, follow-up
\* flags, count and transcript are unchanged and the validator is not called.
C6_BlankInputNoTurn ==
    [][(nreads' = nreads + 1 /\ Blank(keyed'))
          => /\ pc' = "loop"
             /\ UNCHANGED <<q_idx, followup_used, n_children, history, outcome>>]_vars

C6_Witness ==
    /\ nreads = 2
    /\ keyed = <<WS>>
    /\ pc = "loop"
    /\ q_idx = 0
    /\ followup_used[0]

\* C7: an interrupt at any point ends run_domain1_survey with None; it never
\* leaves the function as an exception.
C7_InterruptReturnsNone ==
    outcome # "KeyboardInterrupt"

\* C8: a validator call that raises leaves the session open for the same
\* turn: no NA record, same index, same follow-up flags.
C8_ValidatorFailureRetryable ==
    [][(pc = "validate" /\ outcome' = "ValidatorError")
          => /\ pc' = "loop"
             /\ q_idx' = q_idx
             /\ followup_used' = followup_used
             /\ \A q \in QIdx : CountKind(history', "na_unclear", q)
                                  = CountKind(history, "na_unclear", q)]_vars

\* the count the field map declares
ExplicitCount(a) ==
    _to_int_or_none(Get(a, "num_children_under_5", Get(a, "num_children", VNone)))

\* the children 1..upto with at least one known field
KnownChildren(a, upto) ==
    {i \in 1 .. upto : ChildAge(a, i) # None \/ ChildMal(a, i) # None}

\* C9: non-strict from_answers, given a declared count and child fields for
\* some of the children 1..count, returns a record with one sub-record per
\* child that has a known field and the declared count kept; no error.
C9_PartialChildrenKept ==
    (/\ built # <<>>
     /\ ~strict_len
     /\ ExplicitCount(answers) # None
     /\ ExplicitCount(answers)[1] >= 0
     /\ MaxIndex(answers) <= ExplicitCount(answers)[1])
      => /\ built[1].status = "ok"
         /\ Len(built[1].rec[1].children)
              = Cardinality(KnownChildren(answers, ExplicitCount(answers)[1]))
         /\ built[1].rec[1].num_children_under_5 = ExplicitCount(answers)

\* C10: from_answers fails exactly when strict mode is requested, the count
\* is known and differs from the number of sub-records with data.
C10_FailsIffStrictMismatch ==
    built # <<>> =>
        LET n     == DeclaredN(answers)
            upper == IF n # None THEN Max(n[1], MaxIndex(answers))
                     ELSE MaxIndex(answers)
        IN  (built[1].status # "ok")
              <=> /\ strict_len
                  /\ n # None
                  /\ n[1] # Cardinality(KnownChildren(answers, upper))

(***************************************************************************)
(* Child sub-records of the built record                                   *)
(***************************************************************************)
\* the field map without its nested list
FlatOnly(a) == [k \in (DOMAIN a) \ {"children"} |-> a[k]]

\* C11: sub-records are discovered from a nested list as well as from the
\* flat child{i}_* keys, and a nested list in the field map decides the
\* sub-records of the record (the flat keys are ignored when both are there).
C11_NestedListWins ==
    (/\ built # <<>>
     /\ built[1].status = "ok"
     /\ "children" \in DOMAIN answers)
      => built[1].rec[1].children = NestedChildren(answers["children"])

\* C11 (as the code has it): only the flat keys are read; a nested list in
\* the field map changes nothing of what from_answers returns.
C11_FlatKeysOnly ==
    built # <<>> => built[1] = from_answers(FlatOnly(answers), strict_len)

C11_Witness ==
    /\ built # <<>>
    /\ "children" \in DOMAIN answers
    /\ ChildKey(1, "age") \in DOMAIN answers
    /\ built[1].status = "ok"
    /\ built[1].rec[1].children
         = <<[age_months |-> Some(10), has_malnutrition_signs |-> None]>>

\* a raw value that states an integer / a truth value
StatesInt(v) ==
    \/ v.t = "int"
    \/ v.t = "str" /\ Strip(v.s) # <<>> /\ \A j \in 1 .. Len(Strip(v.s)) : IsDigit(Strip(v.s)[j])
StatesBool(v) ==
    \/ v.t = "bool"
    \/ v.t = "str" /\ Lower(Strip(v.s)) \in {<<"y", "e", "s">>, <<"n", "o">>}

\* child i has a known age / malnutrition value somewhere in the field map
AgeKnownAt(a, i) ==
    \E k \in {ChildKey(i, "age"), AgeChildKey(i)} : k \in DOMAIN a /\ StatesInt(a[k])
MalKnownAt(a, i) ==
    \E f \in MalFields : ChildKey(i, f) \in DOMAIN a /\ StatesBool(a[ChildKey(i, f)])

\* the child indices a field map can speak of
ChildIndices(a) ==
    1 .. Max(MaxIndex(a), IF DeclaredN(a) = None THEN 0 ELSE DeclaredN(a)[1])

\* C12: from_answers never invents child data: the sub-records of the result
\* belong, in increasing order, to distinct child indices that have a known
\* age or malnutrition value in the field map; a field that is not known
\* there is None in the sub-record; an index without a known field has none.
C12_NeverInventsChildren ==
    (built # <<>> /\ built[1].status = "ok") =>
        LET ch == built[1].rec[1].children
        IN  \E f \in [1 .. Len(ch) -> ChildIndices(answers)] :
              /\ \A j, k \in 1 .. Len(ch) : j < k => f[j] < f[k]
              /\ \A j \in 1 .. Len(ch) :
                    /\ AgeKnownAt(answers, f[j]) \/ MalKnownAt(answers, f[j])
                    /\ ~AgeKnownAt(answers, f[j]) => ch[j].age_months = None
                    /\ ~MalKnownAt(answers, f[j]) => ch[j].has_malnutrition_signs = None
                    /\ ch[j].age_months # None
                         => ch[j].age_months = ChildAge(answers, f[j])
                    /\ ch[j].has_malnutrition_signs # None
                         => ch[j].has_malnutrition_signs = ChildMal(answers, f[j])

C12_Witness ==
    /\ built # <<>>
    /\ built[1].status = "ok"
    /\ built[1].rec[1].num_children_under_5 = Some(2)
    /\ ~AgeKnownAt(answers, 1) /\ ~MalKnownAt(answers, 1)
    /\ ChildKey(1, "age") \in DOMAIN answers
    /\ built[1].rec[1].children
         = <<[age_months |-> None, has_malnutrition_signs |-> Some(TRUE)]>>

\* C15: an integer field that is unparsable or outside its declared range (a
\* child age outside 0..60, a negative child count) is unknown in the built
\* record: non-strict from_answers does not raise for it, and a negative
\* count is not clamped to 0.
C15_OutOfRangeIsUnknown ==
    (built # <<>> /\ ~strict_len) =>
        /\ built[1].status = "ok"
        /\ (ExplicitCount(answers) # None /\ ExplicitCount(answers)[1] < 0)
              => built[1].rec[1].num_children_under_5 # Some(0)

(***************************************************************************)
(* Normalizers of models/domain2.py                                        *)
(***************************************************************************)
\* the characters of a string literal
Chars(s) == [i \in 1 .. Len(s) |-> SubSeq(s, i, i)]

\* k in s
Contains(s, k) ==
    \E i \in 0 .. (Len(s) - Len(k)) : SubSeq(s, i + 1, i + Len(k)) = k

\* any(k in s for k in ks)
AnyIn(s, ks) == \E k \in ks : Contains(s, Chars(k))

\* faulty variant of _norm: the .lower() is missing
_norm_cased(v) == Strip(IF Truthy(v) THEN PyStr(v) ELSE <<>>)

\* str(s or "").strip().lower()
_norm(v) == Lower(Strip(IF Truthy(v) THEN PyStr(v) ELSE <<>>))

\* _to_bool_or_none of models/domain2.py (_NA_STRINGS there is the same set)
d2_to_bool_or_none(x) ==
    IF x.t = "none" THEN None
    ELSE IF x.t = "bool" THEN Some(x.b)
    ELSE LET v == _norm(x)
         IN  IF v \in {Chars(k) : k \in {"1", "true", "t", "yes", "y"}} THEN Some(TRUE)
             ELSE IF v \in {Chars(k) : k \in {"0", "false", "f", "no", "n"}}
                  THEN Some(FALSE)
             ELSE None

\* WaterSource.from_llm_value
WaterSource_from_llm_value(v) ==
    LET s == _norm(v)
    IN  IF s \in _NA_STRINGS THEN "UNKNOWN"
        ELSE IF s = Chars("piped water") THEN "PIPED"
        ELSE IF s = Chars("tube well / borehole") THEN "TUBEWELL"
        ELSE IF s = Chars("protected well") THEN "PROTECTED_WELL"
        ELSE IF s = Chars("surface water (river/pond)") THEN "SURFACE_WATER"
        ELSE IF s = Chars("other") THEN "OTHER"
        ELSE IF s = Chars("unknown") THEN "UNKNOWN"
        ELSE IF AnyIn(s, {"piped", "tap", "pipe", "house connection"}) THEN "PIPED"
        ELSE IF AnyIn(s, {"tubewell", "tube well", "borehole", "handpump",
                          "hand pump", "well pump"}) THEN "TUBEWELL"
        ELSE IF AnyIn(s, {"protected well", "covered well", "sealed well"})
             THEN "PROTECTED_WELL"
        ELSE IF AnyIn(s, {"river", "pond", "lake", "stream", "surface water",
                          "canal"}) THEN "SURFACE_WATER"
        ELSE IF s # <<>> THEN "OTHER"
        ELSE "UNKNOWN"

\* WaterTreatmentMethod.from_llm_value
WaterTreatmentMethod_from_llm_value(v) ==
    LET s == _norm(v)
    IN  IF s \in _NA_STRINGS THEN "UNKNOWN"
        ELSE IF AnyIn(s, {"boil", "boiled", "boiling"}) THEN "BOIL"
        ELSE IF AnyIn(s, {"filter", "filtered", "filtration"}) THEN "FILTER"
        ELSE IF AnyIn(s, {"chlorine", "bleach", "tablet", "tabs"}) THEN "CHLORINE"
        ELSE IF s # <<>> THEN "OTHER"
        ELSE "UNKNOWN"

\* ToiletType.from_llm_value
ToiletType_from_llm_value(v) ==
    LET s == _norm(v)
    IN  IF s \in _NA_STRINGS THEN "UNKNOWN"
        ELSE IF AnyIn(s, {"flush", "toilet with water", "sewer", "septic"})
             THEN "FLUSH"
        ELSE IF AnyIn(s, {"pit", "latrine"}) THEN "PIT"
        ELSE IF AnyIn(s, {"shared", "communal", "public toilet"}) THEN "SHARED"
        ELSE IF AnyIn(s, {"open defecation", "no toilet", "bush", "field"})
             THEN "NONE"
        ELSE IF s # <<>> THEN "OTHER"
        ELSE "UNKNOWN"

\* HandwashingStation.from_llm_value
HandwashingStation_from_llm_value(v) ==
    LET s == _norm(v)
    IN  IF s \in _NA_STRINGS THEN "UNKNOWN"
        ELSE IF s = Chars("yes, with soap and water") THEN "SOAP_AND_WATER"
        ELSE IF s = Chars("water only") THEN "WATER_ONLY"
        ELSE IF s = Chars("no designated place") THEN "NONE"
        ELSE IF s = Chars("unknown") THEN "UNKNOWN"
        ELSE IF Contains(s, Chars("soap"))
                  /\ AnyIn(s, {"water", "tap", "station", "place"})
             THEN "SOAP_AND_WATER"
        ELSE IF AnyIn(s, {"water only", "only water", "no soap"}) THEN "WATER_ONLY"
        ELSE IF AnyIn(s, {"no", "none", "not have", "don't have", "without",
                          "no designated", "no place"})
                  /\ AnyIn(s, {"station", "place", "handwash", "hand wash",
                               "washing hands", "sink", "tap"})
             THEN "NONE"
        ELSE "UNKNOWN"

\* HandwashFrequency.from_llm_value
HandwashFrequency_from_llm_value(v) ==
    LET s == _norm(v)
    IN  IF s \in _NA_STRINGS THEN "UNKNOWN"
        ELSE IF AnyIn(s, {"always", "every time", "all the time"}) THEN "ALWAYS"
        ELSE IF AnyIn(s, {"sometimes", "often", "usually", "most of the time"})
             THEN "SOMETIMES"
        ELSE IF AnyIn(s, {"rarely", "seldom", "occasionally", "not often"})
             THEN "RARELY"
        ELSE IF AnyIn(s, {"never", "almost never", "do not", "don't"}) THEN "NEVER"
        ELSE "UNKNOWN"

(***************************************************************************)
(* Every normalizer applied to one raw value                               *)
(***************************************************************************)
\* raw strings an extracted field may hold
RawStrings ==
    { "na", "NA", "Na", " na ", "n/a", "N/A", " N/A", "null", "NULL", "Null",
      "none", "None", "NONE", "unknown", "Unknown", "UNKNOWN", " Unknown ",
      "", " ", "  ",
      "Both parents", "both parents", "BOTH PARENTS", "Single mother",
      "single mother", "Single father", "Grandparent", "grandparent",
      "Other relative", "Other", "other",
      "Piped water", "PIPED WATER", "tap", "Tap", "borehole",
      "Tube well / borehole", "protected well", "River", "rain water",
      "Boil", "boil", "filter", "Chlorine tablets", "bleach",
      "Flush toilet", "pit latrine", "Pit Latrine", "shared", "open defecation",
      "Yes, with soap and water", "soap and water", "Water only", "water only",
      "No designated place", "no place",
      "Always", "always", "sometimes", "not often", "rarely", "Never",
      "almost never", "don't",
      "yes", "Yes", "no", "true", "0", "1", "12", "abc",
      "piped", "pipe", "house connection", "tubewell", "tube well", "handpump",
      "hand pump", "well pump", "covered well", "sealed well", "river", "pond",
      "lake", "stream", "surface water", "canal",
      "boiled", "boiling", "filtered", "filtration", "chlorine", "tablet", "tabs",
      "flush", "toilet with water", "sewer", "septic", "pit", "latrine",
      "communal", "public toilet", "no toilet", "bush", "field",
      "every time", "all the time", "often", "usually", "most of the time",
      "seldom", "occasionally", "never", "do not" }

RawValues ==
    {VStr(Chars(k)) : k \in RawStrings}
        \cup {VNone, VBool(TRUE), VBool(FALSE), VInt(0), VInt(1)}

InitNorm ==
    /\ pc = "normalize"
    /\ q_idx = 0
    /\ followup_used = [i \in QIdx |-> FALSE]
    /\ n_children = None
    /\ history = <<>>
    /\ keyed = <<>>
    /\ nreads = 0
    /\ outcome = "running"
    /\ answers = EmptyMap
    /\ strict_len = FALSE
    /\ built = <<>>
    /\ arg \in RawValues
    /\ ret = <<>>
    /\ AppIdle

Normalize ==
    /\ pc = "normalize"
    /\ ret' = <<[primary_caregiver |-> from_llm_value(arg),
                 water_source |-> WaterSource_from_llm_value(arg),
                 water_treatment_method |-> WaterTreatmentMethod_from_llm_value(arg),
                 toilet_type |-> ToiletType_from_llm_value(arg),
                 handwashing_station |-> HandwashingStation_from_llm_value(arg),
                 washes_after_toilet |-> HandwashFrequency_from_llm_value(arg),
                 bool_d1 |-> _to_bool_or_none(arg),
                 bool_d2 |-> d2_to_bool_or_none(arg),
                 int_d1 |-> _to_int_or_none(arg)]>>
    /\ pc' = "done"
    /\ UNCHANGED <<q_idx, followup_used, n_children, history, keyed, nreads,
                   outcome, answers, strict_len, built, arg>>
    /\ UNCHANGED appvars

NextNorm == Normalize

SpecNorm == InitNorm /\ [][NextNorm]_vars

\* the category fields of a Normalize result
CategoryFields ==
    {"primary_caregiver", "water_source", "water_treatment_method",
     "toilet_type", "handwashing_station", "washes_after_toilet"}

\* the NA sentinels, and a raw value that is one (in any letter case, with
\* surrounding white space) or is missing / null
Sentinels == {"na", "n/a", "null", "none", "unknown", ""}
IsSentinel(v) ==
    \/ v.t = "none"
    \/ v.t = "str" /\ \E k \in Sentinels : Lower(Strip(v.s)) = Chars(k)

\* C13: every NA sentinel normalizes to unknown in every normalizer: to the
\* Unknown variant in the six category mappers and to None in the boolean
\* and integer helpers.
C13_SentinelIsUnknown ==
    (ret # <<>> /\ IsSentinel(arg)) =>
        /\ \A f \in CategoryFields : ret[1][f] = "UNKNOWN"
        /\ ret[1].bool_d1 = None
        /\ ret[1].bool_d2 = None
        /\ ret[1].int_d1 = None

C13_Witness ==
    /\ ret # <<>>
    /\ arg = VStr(Chars(" N/A"))
    /\ ret[1].water_source = "UNKNOWN"
    /\ ret[1].primary_caregiver = "UNKNOWN"
    /\ ret[1].int_d1 = None

\* the Normalize result for a raw value
Normalized(v) ==
    [primary_caregiver |-> from_llm_value(v),
     water_source |-> WaterSource_from_llm_value(v),
     water_treatment_method |-> WaterTreatmentMethod_from_llm_value(v),
     toilet_type |-> ToiletType_from_llm_value(v),
     handwashing_station |-> HandwashingStation_from_llm_value(v),
     washes_after_toilet |-> HandwashFrequency_from_llm_value(v)]

\* C14: category normalization is case-insensitive for every category
\* function, caregiver type included: a raw string and its lower-cased form
\* map to the same variant.
C14_CaseInsensitive ==
    (ret # <<>> /\ arg.t = "str") =>
        \A f \in CategoryFields : ret[1][f] = Normalized(VStr(Lower(arg.s)))[f]

(***************************************************************************)
(* Risk scoring (models/domain1.py, models/domain2.py)                     *)
(*                                                                         *)
(* Scores, weights and factors are kept in hundredths: 2.26 is 226.        *)
(***************************************************************************)
\* round(N / D) to the nearest integer; at an exact tie the direction is `up`
RoundHalf(N, D, up) ==
    LET q == N \div D
        r == N % D
    IN  IF 2 * r > D THEN q + 1
        ELSE IF 2 * r < D THEN q
        ELSE IF up THEN q + 1 ELSE q

\* Python floats are IEEE doubles: where avg_child_score * household_multiplier
\* is an exact decimal tie, the double is not the tie itself and round(.., 2)
\* follows the double. Of the ties the records explored produce, the double
\* lies above the tie for these <<scores, multiplier>> and below for the rest.
OverallTiesUp ==
    { <<<<150>>, 1210000>>,
      <<<<226, 231>>, 1000000>>, <<<<231, 226>>, 1000000>>,
      <<<<231, 258>>, 1000000>>, <<<<258, 231>>, 1000000>> }

\* the same for round(overall_vulnerability_score * 0.10, 2): the overall
\* scores ending in 5 whose product with 0.10 is a double below the tie
WeightedTiesDown == {15, 35, 115, 125, 145, 205, 215, 305, 355, 365, 435}

\* ChildInfo.age_range
age_range(c) ==
    IF c.age_months = None THEN None
    ELSE IF c.age_months[1] < 6 THEN Some("UNDER_6_MONTHS")
    ELSE IF c.age_months[1] < 12 THEN Some("SIX_TO_11_MONTHS")
    ELSE IF c.age_months[1] < 24 THEN Some("TWELVE_TO_23_MONTHS")
    ELSE Some("TWO_TO_FIVE_YEARS")

age_scores ==
    [UNDER_6_MONTHS |-> 100, SIX_TO_11_MONTHS |-> 226,
     TWELVE_TO_23_MONTHS |-> 231, TWO_TO_FIVE_YEARS |-> 150]

\* faulty variant of vulnerability_score: the factor 1.14 is applied unless
\* malnutrition is explicitly False
vulnerability_score_unless_false(c) ==
    LET ar == age_range(c)
    IN  IF ar = None THEN None
        ELSE IF c.has_malnutrition_signs # Some(FALSE)
             THEN Some(RoundHalf(age_scores[ar[1]] * 114, 100, FALSE))
             ELSE Some(age_scores[ar[1]])

\* faulty variant of vulnerability_score: an unknown age scores 1.0
vulnerability_score_default(c) ==
    LET ar == age_range(c)
        score == IF ar = None THEN 100 ELSE age_scores[ar[1]]
    IN  IF c.has_malnutrition_signs = Some(TRUE)
        THEN Some(RoundHalf(score * 114, 100, FALSE))
        ELSE Some(score)

\* ChildInfo.vulnerability_score:  score *= 1.14  only if explicitly True
vulnerability_score(c) ==
    LET ar == age_range(c)
    IN  IF ar = None THEN None
        ELSE IF c.has_malnutrition_signs = Some(TRUE)
             THEN Some(RoundHalf(age_scores[ar[1]] * 114, 100, FALSE))
             ELSE Some(age_scores[ar[1]])

RECURSIVE SumSeq(_)
SumSeq(q) == IF q = <<>> THEN 0 ELSE Head(q) + SumSeq(Tail(q))

\* [c.vulnerability_score for c in children if c.vulnerability_score is not None]
RECURSIVE KnownScores(_)
KnownScores(children) ==
    IF children = <<>> THEN <<>>
    ELSE (IF vulnerability_score(Head(children)) = None THEN <<>>
          ELSE <<vulnerability_score(Head(children))[1]>>)
             \o KnownScores(Tail(children))

SingleParent(r) == r.primary_caregiver \in {"SINGLE_MOTHER", "SINGLE_FATHER"}

\* Domain1Data.domain_weight
domain_weight == 10

\* Domain1Data.overall_vulnerability_score
overall_vulnerability_score(r) ==
    LET scores == KnownScores(r.children)
        household_multiplier ==
            (IF SingleParent(r) THEN 115 ELSE 100)
              * (IF r.has_elderly_members = Some(TRUE) THEN 110 ELSE 100)
              * (IF r.has_immunocompromised_members = Some(TRUE) THEN 110 ELSE 100)
    IN  IF scores = <<>> THEN 0
        ELSE RoundHalf(SumSeq(scores) * household_multiplier,
                       Len(scores) * 1000000,
                       <<scores, household_multiplier>> \in OverallTiesUp)

HighRiskAge(c) ==
    age_range(c) \in {Some("SIX_TO_11_MONTHS"), Some("TWELVE_TO_23_MONTHS")}

\* Domain1Data.get_risk_summary
get_risk_summary(r) ==
    LET idx == 1 .. Len(r.children)
    IN  [domain_weight |-> domain_weight,
         total_children |-> r.num_children_under_5,
         high_risk_age_children |->
             Cardinality({j \in idx : HighRiskAge(r.children[j])}),
         malnourished_children |->
             Cardinality({j \in idx : r.children[j].has_malnutrition_signs = Some(TRUE)}),
         high_risk_children_any |->
             Cardinality({j \in idx :
                 \/ HighRiskAge(r.children[j])
                 \/ r.children[j].has_malnutrition_signs = Some(TRUE)}),
         single_parent_household |-> SingleParent(r),
         vulnerable_members_present |->
             \/ r.has_elderly_members = Some(TRUE)
             \/ r.has_immunocompromised_members = Some(TRUE),
         overall_vulnerability_score |-> overall_vulnerability_score(r),
         weighted_score |->
             RoundHalf(overall_vulnerability_score(r) * domain_weight, 100,
                       overall_vulnerability_score(r) \notin WeightedTiesDown)]

\* Domain2Data.domain_weight
d2_domain_weight == 20

water_points ==
    ("PIPED" :> 50) @@ ("TUBEWELL" :> 150) @@ ("PROTECTED_WELL" :> 200) @@
      ("SURFACE_WATER" :> 400) @@ ("OTHER" :> 250) @@ ("UNKNOWN" :> 200)
method_points ==
    ("BOIL" :> 30) @@ ("FILTER" :> 70) @@ ("CHLORINE" :> 50) @@
      ("OTHER" :> 100) @@ ("UNKNOWN" :> 120)
toilet_points ==
    ("FLUSH" :> 50) @@ ("PIT" :> 200) @@ ("SHARED" :> 250) @@
      ("NONE" :> 400) @@ ("OTHER" :> 200) @@ ("UNKNOWN" :> 200)
station_points ==
    ("SOAP_AND_WATER" :> 20) @@ ("WATER_ONLY" :> 150) @@ ("NONE" :> 300) @@
      ("UNKNOWN" :> 150)
freq_points ==
    ("ALWAYS" :> 20) @@ ("SOMETIMES" :> 120) @@ ("RARELY" :> 250) @@
      ("NEVER" :> 350) @@ ("UNKNOWN" :> 150)

\* Domain2Data.wash_risk_score (every sum is a multiple of 0.1: no tie)
wash_risk_score(r) ==
    water_points[r.water_source]
      + (IF r.treats_water = Some(FALSE) THEN 250
         ELSE IF r.treats_water = Some(TRUE)
              THEN method_points[r.water_treatment_method]
         ELSE 120)
      + toilet_points[r.toilet_type]
      + station_points[r.handwashing_station]
      + freq_points[r.washes_after_toilet]

\* Domain2Data.get_risk_summary
d2_get_risk_summary(r) ==
    [domain_weight |-> d2_domain_weight,
     water_source |-> r.water_source,
     treats_water |-> r.treats_water,
     water_treatment_method |-> r.water_treatment_method,
     toilet_type |-> r.toilet_type,
     handwashing_station |-> r.handwashing_station,
     washes_after_toilet |-> r.washes_after_toilet,
     wash_risk_score |-> wash_risk_score(r),
     weighted_score |-> RoundHalf(wash_risk_score(r) * d2_domain_weight, 100, FALSE)]

(***************************************************************************)
(* get_risk_summary applied to every record explored                       *)
(***************************************************************************)
OptBool == {None, Some(TRUE), Some(FALSE)}

\* a single child of any valid age
AllChildren ==
    {[age_months |-> a, has_malnutrition_signs |-> m] :
        a \in {None} \cup {Some(x) : x \in AgeMin .. AgeMax}, m \in OptBool}

\* the children of households with several
RepChildren ==
    {[age_months |-> a, has_malnutrition_signs |-> m] :
        a \in {None, Some(10), Some(18)}, m \in OptBool}

RECURSIVE ListsOf(_, _)
ListsOf(S, n) ==
    IF n = 0 THEN {<<>>}
    ELSE {<<c>> \o l : c \in S, l \in ListsOf(S, n - 1)}

ChildLists ==
    {<<>>} \cup {<<c>> : c \in AllChildren}
        \cup UNION {ListsOf(RepChildren, n) : n \in 2 .. MaxChild}

D1Records ==
    {[domain |-> 1,
      num_children_under_5 |-> Some(Len(ch)),
      children |-> ch,
      has_elderly_members |-> e,
      has_immunocompromised_members |-> i,
      primary_caregiver |-> cg] :
        ch \in ChildLists, e \in OptBool, i \in OptBool,
        cg \in {"BOTH_PARENTS", "SINGLE_MOTHER", "SINGLE_FATHER", "UNKNOWN"}}

D2Records ==
    {[domain |-> 2,
      water_source |-> w,
      treats_water |-> t,
      water_treatment_method |-> m,
      toilet_type |-> tt,
      handwashing_station |-> hs,
      washes_after_toilet |-> f] :
        w \in DOMAIN water_points, t \in OptBool, m \in DOMAIN method_points,
        tt \in DOMAIN toilet_points, hs \in DOMAIN station_points,
        f \in DOMAIN freq_points}

InitScore ==
    /\ pc = "score"
    /\ q_idx = 0
    /\ followup_used = [i \in QIdx |-> FALSE]
    /\ n_children = None
    /\ history = <<>>
    /\ keyed = <<>>
    /\ nreads = 0
    /\ outcome = "running"
    /\ answers = EmptyMap
    /\ strict_len = FALSE
    /\ built = <<>>
    /\ arg \in D1Records \cup D2Records
    /\ ret = <<>>
    /\ AppIdle

Summarize ==
    /\ pc = "score"
    /\ ret' = <<IF arg.domain = 1 THEN get_risk_summary(arg)
                ELSE d2_get_risk_summary(arg)>>
    /\ pc' = "done"
    /\ UNCHANGED <<q_idx, followup_used, n_children, history, keyed, nreads,
                   outcome, answers, strict_len, built, arg>>
    /\ UNCHANGED appvars

NextScore == Summarize

SpecScore == InitScore /\ [][NextScore]_vars

\* a Domain 1 record was summarized
Scored1 == ret # <<>> /\ arg.domain = 1

\* C16: a Domain 1 record in which no child has a computable score (no
\* sub-record, or every sub-record of unknown age) has the overall score 0.0
\* and the weighted score 0.0, whatever the caregiver and the elderly /
\* immunocompromised flags.
C16_NoScorableChildIsZero ==
    (/\ Scored1
     /\ \A j \in 1 .. Len(arg.children) : arg.children[j].age_months = None)
      => /\ ret[1].overall_vulnerability_score = 0
         /\ ret[1].weighted_score = 0

C16_Witness ==
    /\ Scored1
    /\ Len(arg.children) = 2
    /\ \A j \in 1 .. 2 : arg.children[j].age_months = None
    /\ arg.children[1].has_malnutrition_signs = Some(TRUE)
    /\ arg.primary_caregiver = "SINGLE_MOTHER"
    /\ arg.has_elderly_members = Some(TRUE)
    /\ arg.has_immunocompromised_members = Some(TRUE)
    /\ ret[1].overall_vulnerability_score = 0

\* the score the weights table of the claim gives a child, in hundredths
BucketWeight(age) ==
    IF age <= 5 THEN 100 ELSE IF age <= 11 THEN 226 ELSE IF age <= 23 THEN 231 ELSE 150
WithMalnutrition(w) ==
    CASE w = 100 -> 114 [] w = 226 -> 258 [] w = 231 -> 263 [] w = 150 -> 171
ClaimedScore(c) ==
    IF c.has_malnutrition_signs = Some(TRUE)
    THEN WithMalnutrition(BucketWeight(c.age_months[1]))
    ELSE BucketWeight(c.age_months[1])

NoAdverseCondition(r) ==
    /\ ~SingleParent(r)
    /\ r.has_elderly_members # Some(TRUE)
    /\ r.has_immunocompromised_members # Some(TRUE)

\* C18: a child's score is the weight of its age bucket, times 1.14 rounded
\* to 2 decimals only when malnutrition is explicitly true (unknown scores as
\* false); for a single child and no adverse household condition it is the
\* aggregate, and for one child of 10 months with confirmed malnutrition the
\* score and the aggregate are 2.58 and the weighted score is 0.26.
C18_ChildScore ==
    Scored1 =>
        /\ \A j \in 1 .. Len(arg.children) :
               arg.children[j].age_months # None
                 => vulnerability_score(arg.children[j])
                      = Some(ClaimedScore(arg.children[j]))
        /\ (/\ Len(arg.children) = 1
            /\ arg.children[1].age_months # None
            /\ NoAdverseCondition(arg))
              => ret[1].overall_vulnerability_score = ClaimedScore(arg.children[1])
        /\ (/\ arg.children = <<[age_months |-> Some(10),
                                  has_malnutrition_signs |-> Some(TRUE)]>>
            /\ NoAdverseCondition(arg))
              => /\ ret[1].overall_vulnerability_score = 258
                 /\ ret[1].weighted_score = 26

C18_Witness ==
    /\ Scored1
    /\ arg.children = <<[age_months |-> Some(10),
                         has_malnutrition_signs |-> Some(TRUE)]>>
    /\ arg.primary_caregiver = "BOTH_PARENTS"
    /\ arg.has_elderly_members = Some(FALSE)
    /\ arg.has_immunocompromised_members = None
    /\ ret[1].overall_vulnerability_score = 258
    /\ ret[1].weighted_score = 26

(***************************************************************************)
(* coerce_model_output_to_dict (util.py)                                   *)
(*                                                                         *)
(* A JSON text is the sequence of its tokens: "{", "}", an entry, the      *)
(* envelope key, an array, or prose. A model output is a record            *)
(* [kind, dict, parts, text]: kind "dict" with the map in dict, or kind    *)
(* "object" with the optional attributes parts and text.                   *)
(***************************************************************************)
\* parts per model response explored
MaxParts == 2

LB == "{"
RB == "}"
ENVELOPE == "\"response\":"
ENTRY1 == "\"num_children_under_5\":1"
ENTRY2 == "\"child1_age\":10"
ARRAY == "[1]"
PROSE == "Here is the result"

\* json.loads(...) as util.py evaluates it: the module imports re, Path and
\* typing names only, so the name json is unbound and the call raises
\* NameError whatever its argument
json_loads(t) == [raised |-> TRUE, is_dict |-> FALSE, dict |-> EmptyMap, inner |-> None]

\* if "response" in payload and isinstance(payload["response"], dict):
\*     return payload["response"]
\* return payload
Unwrapped(payload) == IF payload.inner # None THEN payload.inner[1] ELSE payload.dict

\* faulty variant of FromParts: json.loads is called outside any try
RECURSIVE FromParts_uncaught(_)
FromParts_uncaught(parts) ==
    IF parts = <<>> THEN [status |-> "none", value |-> EmptyMap]
    ELSE IF ~Head(parts).has_args THEN FromParts_uncaught(Tail(parts))
    ELSE LET payload == json_loads(Head(parts).args)
         IN  IF payload.raised THEN [status |-> "NameError", value |-> EmptyMap]
             ELSE IF payload.is_dict
                  THEN [status |-> "ok", value |-> Unwrapped(payload)]
             ELSE FromParts_uncaught(Tail(parts))

\* for part in obj.parts: the first payload that loads as a dict is returned;
\* status "none" when the loop ends without a return
RECURSIVE FromParts(_)
FromParts(parts) ==
    IF parts = <<>> THEN [status |-> "none", value |-> EmptyMap]
    ELSE IF ~Head(parts).has_args THEN FromParts(Tail(parts))
    ELSE LET payload == json_loads(Head(parts).args)
         IN  IF payload.raised THEN FromParts(Tail(parts))
             ELSE IF payload.is_dict
                  THEN [status |-> "ok", value |-> Unwrapped(payload)]
             ELSE FromParts(Tail(parts))

\* t.find("{") and t.rfind("}") as positions 1..Len(t), 0 for -1
Find(t, c) ==
    IF \E i \in 1 .. Len(t) : t[i] = c
    THEN CHOOSE i \in 1 .. Len(t) : t[i] = c /\ \A j \in 1 .. (i - 1) : t[j] # c
    ELSE 0
RFind(t, c) ==
    IF \E i \in 1 .. Len(t) : t[i] = c
    THEN CHOOSE i \in 1 .. Len(t) : t[i] = c /\ \A j \in (i + 1) .. Len(t) : t[j] # c
    ELSE 0

\* Case 2: fallback to .text JSON
FromText(text) ==
    IF text = None \/ Strip(text[1]) = <<>> THEN [status |-> "none", value |-> EmptyMap]
    ELSE LET t     == Strip(text[1])
             start == Find(t, LB)
             end   == RFind(t, RB)
         IN  IF start # 0 /\ end # 0 /\ end > start
             THEN LET payload == json_loads(SubSeq(t, start, end))
                  IN  IF ~payload.raised /\ payload.is_dict
                      THEN [status |-> "ok", value |-> Unwrapped(payload)]
                      ELSE [status |-> "none", value |-> EmptyMap]
             ELSE [status |-> "none", value |-> EmptyMap]

\* the result is [status, value]: status "ok" with the dict returned, or the
\* exception that leaves the function
coerce_model_output_to_dict(obj) ==
    IF obj.kind = "dict" THEN [status |-> "ok", value |-> obj.dict]
    ELSE LET tool == IF obj.parts # None /\ obj.parts[1] # <<>>
                     THEN FromParts(obj.parts[1])
                     ELSE [status |-> "none", value |-> EmptyMap]
         IN  IF tool.status # "none" THEN tool
             ELSE IF FromText(obj.text).status = "ok" THEN FromText(obj.text)
             ELSE [status |-> "ok", value |-> EmptyMap]

(***************************************************************************)
(* The model outputs explored                                              *)
(***************************************************************************)
Payloads ==
    { <<LB, ENTRY1, RB>>,
      <<LB, ENVELOPE, LB, ENTRY1, ENTRY2, RB, RB>>,
      <<ARRAY>>,
      <<PROSE>>,
      <<LB, ENTRY1>> }

\* a ToolCallPart carries args; a TextPart does not
Parts ==
    {[has_args |-> TRUE, args |-> p] : p \in Payloads}
        \cup {[has_args |-> FALSE, args |-> <<>>]}

Texts ==
    { None, Some(<<>>), Some(<<PROSE>>),
      Some(<<WS, PROSE, LB, ENTRY2, RB, PROSE>>),
      Some(<<LB, ENVELOPE, LB, ENTRY1, RB, RB>>),
      Some(<<RB, PROSE, LB>>) }

ModelOutputs ==
    {[kind |-> "dict", dict |-> d, parts |-> None, text |-> None] :
        d \in ExtractorOutputs}
      \cup {[kind |-> "object", dict |-> EmptyMap, parts |-> ps, text |-> tx] :
              ps \in {None} \cup {Some(l) : l \in UNION {ListsOf(Parts, n) : n \in 0 .. MaxParts}},
              tx \in Texts}

InitCoerce ==
    /\ pc = "coerce"
    /\ q_idx = 0
    /\ followup_used = [i \in QIdx |-> FALSE]
    /\ n_children = None
    /\ history = <<>>
    /\ keyed = <<>>
    /\ nreads = 0
    /\ outcome = "running"
    /\ answers = EmptyMap
    /\ strict_len = FALSE
    /\ built = <<>>
    /\ arg \in ModelOutputs
    /\ ret = <<>>
    /\ AppIdle

Coerce ==
    /\ pc = "coerce"
    /\ ret' = <<coerce_model_output_to_dict(arg)>>
    /\ pc' = "done"
    /\ UNCHANGED <<q_idx, followup_used, n_children, history, keyed, nreads,
                   outcome, answers, strict_len, built, arg>>
    /\ UNCHANGED appvars

NextCoerce == Coerce

SpecCoerce == InitCoerce /\ [][NextCoerce]_vars

\* the map a JSON text states, envelope removed: Some(map) when the text is
\* one object of entries, bare or under the "response" key, else None
EntryMap(entries) ==
    [k \in {"num_children_under_5" : i \in {j \in 1 .. Len(entries) : entries[j] = ENTRY1}}
            \cup {"child1_age" : i \in {j \in 1 .. Len(entries) : entries[j] = ENTRY2}}
        |-> IF k = "num_children_under_5" THEN VInt(1) ELSE VInt(10)]
AllEntries(t) == \A i \in 1 .. Len(t) : t[i] \in {ENTRY1, ENTRY2}
StatedMap(t) ==
    IF Len(t) >= 2 /\ t[1] = LB /\ t[Len(t)] = RB /\ AllEntries(SubSeq(t, 2, Len(t) - 1))
    THEN Some(EntryMap(SubSeq(t, 2, Len(t) - 1)))
    ELSE IF Len(t) >= 5 /\ SubSeq(t, 1, 3) = <<LB, ENVELOPE, LB>>
              /\ SubSeq(t, Len(t) - 1, Len(t)) = <<RB, RB>>
              /\ AllEntries(SubSeq(t, 4, Len(t) - 2))
    THEN Some(EntryMap(SubSeq(t, 4, Len(t) - 2)))
    ELSE None

\* the tool-call payloads of a model output that state a map, in order
StatingParts(obj) ==
    IF obj.parts = None THEN <<>>
    ELSE SelectSeq(obj.parts[1], LAMBDA p : p.has_args /\ StatedMap(p.args) # None)

\* the JSON object embedded in the text, first "{" to last "}"
Embedded(obj) ==
    IF obj.text = None THEN <<>>
    ELSE LET t == Strip(obj.text[1])
         IN  IF Find(t, LB) # 0 /\ RFind(t, RB) > Find(t, LB)
             THEN SubSeq(t, Find(t, LB), RFind(t, RB)) ELSE <<>>

Coerced == ret # <<>>

\* C19: for a result that is not a map, coerce_model_output_to_dict returns
\* the map of the first tool-call payload whose argument string parses as
\* JSON, else the map of the JSON object embedded in the text between the
\* first "{" and the last "}", the "response" envelope removed in both cases.
C19_ParsedPayloadReturned ==
    (Coerced /\ arg.kind # "dict") =>
        IF StatingParts(arg) # <<>>
        THEN ret[1].value = StatedMap(StatingParts(arg)[1].args)[1]
        ELSE StatedMap(Embedded(arg)) # None
               => ret[1].value = StatedMap(Embedded(arg))[1]

\* C20: coerce_model_output_to_dict is total: it raises nothing, a map is
\* returned as it is, and any other input on which no attempt succeeds (no
\* parts, unparsable payloads, no text, text without a JSON object) gives
\* the empty map.
C20_Total ==
    Coerced =>
        /\ ret[1].status = "ok"
        /\ arg.kind = "dict" => ret[1].value = arg.dict
        /\ (/\ arg.kind # "dict"
            /\ StatingParts(arg) = <<>>
            /\ StatedMap(Embedded(arg)) = None)
              => ret[1].value = EmptyMap

C20_Witness ==
    /\ Coerced
    /\ arg.kind = "object"
    /\ arg.parts # None
    /\ Len(arg.parts[1]) = 2
    /\ arg.parts[1][1].args = <<PROSE>>
    /\ arg.parts[1][2].args = <<LB, ENTRY1>>
    /\ arg.text = Some(<<RB, PROSE, LB>>)
    /\ ret[1] = [status |-> "ok", value |-> EmptyMap]

(***************************************************************************)
(* The declared count of the built record                                  *)
(***************************************************************************)
\* the child indices that occur in a flat child{i}_* or age_child{i} key
ObservedIndices(a) ==
    {i \in 1 .. MaxChild :
        \/ AgeChildKey(i) \in DOMAIN a
        \/ \E f \in MalFields \cup {"age"} : ChildKey(i, f) \in DOMAIN a}

\* C22: without an explicit parseable count the declared count of the built
\* record is the highest child index observed among the flat keys, None
\* when there is no such key; an explicit parseable count takes precedence
\* over the inferred one.
C22_CountInferredFromKeys ==
    (built # <<>> /\ built[1].status = "ok") =>
        LET n        == built[1].rec[1].num_children_under_5
            explicit == ExplicitCount(answers)
            inferred == IF ObservedIndices(answers) = {} THEN None
                        ELSE Some(SetMax(ObservedIndices(answers)))
        IN  /\ explicit = None => n = inferred
            /\ (explicit # None /\ explicit[1] >= 0) => n = explicit
            /\ (explicit # None /\ inferred # explicit) => n # inferred

C22_Witness ==
    /\ built # <<>>
    /\ built[1].status = "ok"
    /\ "num_children_under_5" \in DOMAIN answers
    /\ ExplicitCount(answers) = None
    /\ ChildKey(1, "age") \notin DOMAIN answers
    /\ ChildKey(2, "malnutrition") \in DOMAIN answers
    /\ built[1].rec[1].num_children_under_5 = Some(2)
    /\ Len(built[1].rec[1].children) = 1

\* the keyword sets of the keyword-matched mappers: <<field, category, keywords>>
KeywordSets ==
    { <<"water_source", "PIPED", {"piped", "tap", "pipe", "house connection"}>>,
      <<"water_source", "TUBEWELL",
        {"tubewell", "tube well", "borehole", "handpump", "hand pump", "well pump"}>>,
      <<"water_source", "PROTECTED_WELL",
        {"protected well", "covered well", "sealed well"}>>,
      <<"water_source", "SURFACE_WATER",
        {"river", "pond", "lake", "stream", "surface water", "canal"}>>,
      <<"water_treatment_method", "BOIL", {"boil", "boiled", "boiling"}>>,
      <<"water_treatment_method", "FILTER", {"filter", "filtered", "filtration"}>>,
      <<"water_treatment_method", "CHLORINE",
        {"chlorine", "bleach", "tablet", "tabs"}>>,
      <<"toilet_type", "FLUSH", {"flush", "toilet with water", "sewer", "septic"}>>,
      <<"toilet_type", "PIT", {"pit", "latrine"}>>,
      <<"toilet_type", "SHARED", {"shared", "communal", "public toilet"}>>,
      <<"toilet_type", "NONE", {"open defecation", "no toilet", "bush", "field"}>>,
      <<"washes_after_toilet", "ALWAYS", {"always", "every time", "all the time"}>>,
      <<"washes_after_toilet", "SOMETIMES",
        {"sometimes", "often", "usually", "most of the time"}>>,
      <<"washes_after_toilet", "RARELY",
        {"rarely", "seldom", "occasionally", "not often"}>>,
      <<"washes_after_toilet", "NEVER",
        {"never", "almost never", "do not", "don't"}>> }

\* C24: in the keyword-matched mappers (water source, treatment method,
\* toilet type, handwash frequency) the more specific keyword wins; every
\* keyword of a category's keyword set, given alone, maps to that category.
C24_KeywordMapsToItsCategory ==
    (ret # <<>> /\ arg.t = "str") =>
        \A e \in KeywordSets :
            (\E k \in e[3] : arg.s = Chars(k)) => ret[1][e[1]] = e[2]

\* the lines a step appended to the transcript
Appended == SubSeq(history', Len(history) + 1, Len(history'))

\* the step handles a GIVE_UP verdict: an NA record for the current question
GiveUpStep ==
    /\ pc = "validate"
    /\ Len(history') > Len(history)
    /\ history'[Len(history) + 1] = NaUnclear(q_idx)

\* the step handles an OK verdict: the question is left without an NA record
OkStep ==
    /\ pc = "validate"
    /\ pc' = "loop"
    /\ q_idx' # q_idx
    /\ ~GiveUpStep

\* the transcript lines of leaving question i for question j
MoveLines(i, j) ==
    [k \in 1 .. (j - i - 1) |-> NaSkipped(i + k)]
        \o (IF j < NumQuestions THEN <<AskLine(j)>> ELSE <<>>)

\* j is the first question after i that applies, or the end of the survey
NextApplicable(i, j, n) ==
    /\ j \in (i + 1) .. NumQuestions
    /\ \A k \in (i + 1) .. (j - 1) : should_skip(k, n)
    /\ j < NumQuestions => ~should_skip(j, n)

\* C25: on GIVE_UP for question i exactly one NA System record naming i is
\* appended, then the survey advances as on OK: NA for every following
\* not-applicable question without prompting, then the next applicable
\* question is asked, or none is left; the child count is set only by an OK
\* answer to Q1, never by a GIVE_UP.
C25_GiveUpAdvancesLikeOk ==
    [][ /\ GiveUpStep =>
              /\ history' = history \o <<NaUnclear(q_idx)>>
                                    \o MoveLines(q_idx, q_idx')
              /\ NextApplicable(q_idx, q_idx', n_children)
              /\ n_children' = n_children
              /\ pc' = "loop"
        /\ OkStep =>
              /\ history' = history \o MoveLines(q_idx, q_idx')
              /\ NextApplicable(q_idx, q_idx', n_children')
        /\ n_children' # n_children => (OkStep /\ q_idx = 0)
      ]_vars

\* a GIVE_UP on Q3 after a count of 1: Q4 and Q5 are recorded NA, Q6 asked
C25_Witness ==
    /\ n_children = Some(1)
    /\ q_idx = 5
    /\ pc = "loop"
    /\ CountKind(history, "na_unclear", 2) = 1
    /\ CountKind(history, "na_not_applicable", 3) = 1
    /\ CountKind(history, "na_not_applicable", 4) = 1
    /\ history[Len(history)] = AskLine(5)

\* the step handles a NEED_FOLLOWUP verdict: a follow-up line is appended
FollowupStep ==
    /\ pc = "validate"
    /\ Len(history') > Len(history)
    /\ history'[Len(history) + 1] = FollowupLine(q_idx)

\* C26: at every validator call the followup_used value passed is true iff a
\* follow-up was already emitted for the current question; on NEED_FOLLOWUP
\* the index stays and the flag becomes true; in every reachable state the
\* flag of every non-current question is false.
C26_FlagTracksFollowup ==
    /\ [](/\ pc = "validate" =>
                (followup_used[q_idx]
                    <=> CountKind(history, "followup", q_idx) >= 1)
          /\ \A q \in QIdx : q # q_idx => ~followup_used[q])
    /\ [][FollowupStep => (q_idx' = q_idx /\ followup_used'[q_idx])]_vars

\* the validator is called for Q2 with the flag set, after a follow-up on Q2
C26_Witness ==
    /\ pc = "validate"
    /\ q_idx = 1
    /\ followup_used[1]
    /\ CountKind(history, "followup", 1) = 1
    /\ CountKind(history, "answer", 1) = 2

\* question q was left for good: answered, or recorded NA exactly once
Terminal(h, q) ==
    LET na == CountKind(h, "na_unclear", q)
                  + CountKind(h, "na_not_applicable", q)
    IN  \/ na = 1
        \/ na = 0 /\ CountKind(h, "answer", q) >= 1

\* the extractor call was made (it is in flight, or it has ended)
ExtractorCalled ==
    \/ pc = "extract"
    \/ outcome \in {"record", "ValidationError", "AttributeError",
                    "ExtractorError"}
    \/ built # <<>>

\* C28: a completed session emits the sentinel line exactly once, as the last
\* transcript line, only after all six questions have a terminal status; the
\* extractor is then called exactly once with the whole transcript, and never
\* before the sentinel.
C28_SentinelOnceThenExtractor ==
    /\ [](/\ CountKind(history, "complete", NumQuestions) <= 1
          /\ CountKind(history, "complete", NumQuestions) = 1 =>
                /\ history[Len(history)] = CompleteLine
                /\ q_idx = NumQuestions
                /\ \A q \in QIdx : Terminal(history, q)
          /\ ExtractorCalled => CountKind(history, "complete", NumQuestions) = 1
          /\ outcome = "record" => pc = "done")
    /\ [][/\ pc' = "extract" /\ pc # "extract" =>
                /\ pc = "loop"
                /\ history' = Append(history, CompleteLine)
                /\ CountKind(history, "complete", NumQuestions) = 0
          /\ pc = "extract" => (pc' = "done" /\ history' = history)
          /\ pc = "done" => pc' = "done"]_vars

\* the survey completed and the extractor's map was turned into a record
C28_Witness ==
    /\ outcome = "record"
    /\ history[Len(history)] = CompleteLine
    /\ CountKind(history, "answer", 5) = 1
    /\ CountKind(history, "na_unclear", 1) = 1

\* C29: an NA record with reason 'Unclear after 1 follow-up' is appended for
\* a question only after exactly one follow-up was emitted for that question;
\* a GIVE_UP verdict on the first answer to a question does not produce it.
C29_UnclearOnlyAfterFollowup ==
    \A q \in QIdx :
        CountKind(history, "na_unclear", q) >= 1 =>
            CountKind(history, "followup", q) = 1

(***************************************************************************)
(* run_domain1_survey with a validator that honours its contract and no    *)
(* interrupt                                                               *)
(***************************************************************************)
ContractLoopTop == Prompt(MaxContractReads)

\* the validator never returns NEED_FOLLOWUP when followup_used is true
ContractValidatorReturns ==
    /\ ValidatorReturns
    /\ followup_used[q_idx] => ~FollowupStep

NextContract ==
    \/ ContractLoopTop
    \/ ContractValidatorReturns
    \/ Complete
    \/ ExtractorReturns

SpecContract == Init /\ [][NextContract]_vars

\* number of non-empty respondent answers in the transcript
NumAnswers(h) == Cardinality({i \in 1 .. Len(h) : h[i].kind = "answer"})

\* C30: with a validator that never returns NEED_FOLLOWUP when followup_used
\* is true and no interrupt, the survey is complete after at most 12
\* non-empty respondent answers, at most 2 per question.
C30_CompleteWithinTwelveAnswers ==
    /\ \A q \in QIdx : CountKind(history, "answer", q) <= 2
    /\ NumAnswers(history) <= 2 * NumQuestions
    /\ (pc = "loop" /\ q_idx < NumQuestions) =>
            NumAnswers(history) < 2 * NumQuestions
    /\ (pc = "validate" /\ CountKind(history, "answer", q_idx) = 2) =>
            followup_used[q_idx]

\* the survey completed after two answers to each of the six questions
C30_Witness ==
    /\ pc = "done"
    /\ outcome = "record"
    /\ NumAnswers(history) = 2 * NumQuestions
    /\ \A q \in QIdx : CountKind(history, "followup", q) = 1

\* C23: at completion, whatever shape the extractor's result has (map,
\* tool-call response, free text, unrecognized), it is converted to a flat
\* field map (empty when unrecognized) and a record is returned whose missing
\* fields are unknown; a non-map result never surfaces as an exception.
C23_AnyShapeYieldsRecord ==
    (pc = "done" /\ arg # <<>>) =>
        /\ arg[1].kind = "dict" => built[1] = from_answers(arg[1].dict, FALSE)
        /\ arg[1].kind # "dict" =>
              /\ outcome = "record"
              /\ built[1] = from_answers(EmptyMap, FALSE)

(***************************************************************************)
(* app.py: SurveySession, the global sessions dict and the event handlers  *)
(***************************************************************************)
\* SurveySession.__init__
NewSurveySession ==
    [conversation_history |-> <<>>, is_complete |-> FALSE, result_data |-> None]

\* a transcript line: who speaks, the handler call that appended it, and
\* whether the text contains SURVEY_COMPLETE
AppLine(tag, t, complete) == [tag |-> tag, turn |-> t, complete |-> complete]

\* faulty variant of AppendLine: one list is shared by every session
AppendLine_shared(objs, o, line) ==
    [i \in DOMAIN objs |->
        [objs[i] EXCEPT !.conversation_history = Append(@, line)]]

\* self.deps.conversation_history.append(...)
AppendLine(objs, o, line) ==
    [objs EXCEPT ![o].conversation_history = Append(@, line)]

\* get_or_create_session(session_id)
get_or_create_session(objs, sess, sid) ==
    IF sess[sid] # 0
    THEN [objects |-> objs, sessions |-> sess, ref |-> sess[sid]]
    ELSE [objects |-> Append(objs, NewSurveySession),
          sessions |-> [sess EXCEPT ![sid] = Len(objs) + 1],
          ref |-> Len(objs) + 1]

\* chat() from its first line up to the first await of process_response,
\* called with a history that is not empty
chat(objs, sess, sid, blank, t) ==
    IF blank
    THEN [objects |-> objs, sessions |-> sess, pc |-> "done", obj |-> 0]
    ELSE LET g == get_or_create_session(objs, sess, sid)
         IN  IF g.objects[g.ref].is_complete
             THEN [objects |-> g.objects, sessions |-> g.sessions,
                   pc |-> "done", obj |-> g.ref]
             ELSE [objects |-> AppendLine(g.objects, g.ref,
                                          AppLine("Respondent", t, FALSE)),
                   sessions |-> g.sessions, pc |-> "converse", obj |-> g.ref]

\* a handler call in  tasks : fn, the session id it was given, the session
\* object it works on (0: none), the await it is suspended at, and whether
\* its message is blank (FALSE once chat() has read the message)

\* a browser tab holds the id: from page load, or returned by New Survey
KnownId(sid) ==
    \/ sid \in InitialIds
    \/ \E t \in 1 .. Len(tasks) :
          /\ tasks[t].fn = "start_survey"
          /\ tasks[t].sid = sid
          /\ tasks[t].pc = "done"

\* the old variables stay as they are while the web application runs
SurveyIdle ==
    UNCHANGED <<pc, q_idx, followup_used, n_children, history, keyed, nreads,
                outcome, answers, strict_len, built, arg, ret>>

InitApp ==
    /\ pc = "app"
    /\ q_idx = 0
    /\ followup_used = [i \in QIdx |-> FALSE]
    /\ n_children = None
    /\ history = <<>>
    /\ keyed = <<>>
    /\ nreads = 0
    /\ outcome = "running"
    /\ answers = EmptyMap
    /\ strict_len = FALSE
    /\ built = <<>>
    /\ arg = <<>>
    /\ ret = <<>>
    /\ AppIdle

\* handle_submit(message, history, session_id) up to its first await
handle_submit ==
    /\ pc = "app"
    /\ Len(tasks) < MaxSubmissions
    /\ \E sid \in SessionIds, blank \in BOOLEAN :
         /\ KnownId(sid)
         /\ IF sid \notin chatbot
            THEN /\ objects' = Append(objects, NewSurveySession)
                 /\ sessions' = [sessions EXCEPT ![sid] = Len(objects) + 1]
                 /\ tasks' = Append(tasks,
                        [fn |-> "handle_submit", sid |-> sid,
                         obj |-> Len(objects) + 1, pc |-> "greet",
                         blank |-> blank])
            ELSE LET c == chat(objects, sessions, sid, blank, Len(tasks) + 1)
                 IN  /\ objects' = c.objects
                     /\ sessions' = c.sessions
                     /\ tasks' = Append(tasks,
                            [fn |-> "handle_submit", sid |-> sid,
                             obj |-> c.obj, pc |-> c.pc, blank |-> FALSE])
    /\ UNCHANGED <<files, chatbot>>
    /\ SurveyIdle

\* handle_new_survey(session_id) and start_survey up to the first await
handle_new_survey ==
    /\ pc = "app"
    /\ Len(tasks) < MaxSubmissions
    /\ \E sid \in GeneratedIds :
         /\ sessions[sid] = 0
         /\ objects' = Append(objects, NewSurveySession)
         /\ sessions' = [sessions EXCEPT ![sid] = Len(objects) + 1]
         /\ tasks' = Append(tasks,
                [fn |-> "start_survey", sid |-> sid, obj |-> Len(objects) + 1,
                 pc |-> "greet", blank |-> FALSE])
    /\ UNCHANGED <<files, chatbot>>
    /\ SurveyIdle

\* get_initial_greeting resumes: the greeting is appended; handle_submit
\* goes on into chat()
GreetingReturns ==
    /\ pc = "app"
    /\ \E t \in 1 .. Len(tasks) :
         /\ tasks[t].pc = "greet"
         /\ LET greeted == AppendLine(objects, tasks[t].obj,
                                      AppLine("Agent", t, FALSE))
                c == chat(greeted, sessions, tasks[t].sid, tasks[t].blank, t)
            IN  IF tasks[t].fn = "start_survey"
                THEN /\ objects' = greeted
                     /\ tasks' = [tasks EXCEPT ![t].pc = "done"]
                     /\ chatbot' = chatbot \cup {tasks[t].sid}
                     /\ UNCHANGED sessions
                ELSE /\ objects' = c.objects
                     /\ sessions' = c.sessions
                     /\ tasks' = [tasks EXCEPT
                                    ![t].pc = c.pc,
                                    ![t].obj = IF c.obj = 0 THEN @ ELSE c.obj,
                                    ![t].blank = FALSE]
                     /\ chatbot' = IF c.pc = "done"
                                   THEN chatbot \cup {tasks[t].sid} ELSE chatbot
    /\ UNCHANGED files
    /\ SurveyIdle

\* process_response resumes after conversation_agent.run
ConversationReturns ==
    /\ pc = "app"
    /\ \E t \in 1 .. Len(tasks), complete \in BOOLEAN :
         /\ tasks[t].pc = "converse"
         /\ objects' = [AppendLine(objects, tasks[t].obj,
                                   AppLine("Agent", t, complete))
                          EXCEPT ![tasks[t].obj].is_complete = @ \/ complete]
         /\ tasks' = [tasks EXCEPT
                        ![t].pc = IF complete THEN "extract" ELSE "done"]
         /\ chatbot' = IF complete THEN chatbot
                       ELSE chatbot \cup {tasks[t].sid}
    /\ UNCHANGED <<sessions, files>>
    /\ SurveyIdle

\* _extract_data resumes after extraction_agent.run; _save_results
ExtractionReturns ==
    /\ pc = "app"
    /\ \E t \in 1 .. Len(tasks), out \in ExtractorResults,
          same_second \in BOOLEAN :
         /\ tasks[t].pc = "extract"
         /\ IF from_result(out).status = "ok"
            THEN /\ objects' = [objects EXCEPT ![tasks[t].obj].result_data =
                                    Some(from_result(out).rec[1])]
                 \* the file name is the time to the second: a save in the
                 \* second of the newest file overwrites it
                 /\ files' = IF same_second /\ files # <<>>
                             THEN [files EXCEPT ![Len(files)] = tasks[t].obj]
                             ELSE Append(files, tasks[t].obj)
                 /\ tasks' = [tasks EXCEPT ![t].pc = "done"]
                 /\ chatbot' = chatbot \cup {tasks[t].sid}
            ELSE /\ tasks' = [tasks EXCEPT ![t].pc = "failed"]
                 /\ UNCHANGED <<objects, files, chatbot>>
    /\ UNCHANGED sessions
    /\ SurveyIdle

\* an agent call raises: the handler ends with the exception
AgentRaises ==
    /\ pc = "app"
    /\ \E t \in 1 .. Len(tasks) :
         /\ tasks[t].pc \in {"greet", "converse", "extract"}
         /\ tasks' = [tasks EXCEPT ![t].pc = "failed"]
    /\ UNCHANGED <<sessions, objects, files, chatbot>>
    /\ SurveyIdle

\* clear_btn.click(lambda: [], outputs=[chatbot])
ClearChat ==
    /\ pc = "app"
    /\ \E sid \in chatbot : chatbot' = chatbot \ {sid}
    /\ UNCHANGED <<sessions, objects, tasks, files>>
    /\ SurveyIdle

NextApp ==
    \/ handle_submit
    \/ handle_new_survey
    \/ GreetingReturns
    \/ ConversationReturns
    \/ ExtractionReturns
    \/ AgentRaises
    \/ ClearChat

SpecApp == InitApp /\ [][NextApp]_vars

(***************************************************************************)
(* C21, C27: sessions of the web application                               *)
(***************************************************************************)
\* the step is taken for session id sid: a handler call for it starts or
\* resumes, or its chat is cleared
StepOf(sid) ==
    \/ /\ Len(tasks') > Len(tasks)
       /\ tasks'[Len(tasks')].sid = sid
    \/ \E t \in 1 .. Len(tasks) : tasks'[t] # tasks[t] /\ tasks[t].sid = sid
    \/ /\ tasks' = tasks
       /\ sid \in chatbot \ chatbot'

\* C21: independent sessions share no mutable state: a step of one session
\* (start, submit, complete) never changes the other session's transcript,
\* completion flag or result, nor which session object its id names.
C21_SessionsIndependent ==
    [][\A s \in SessionIds, o \in SessionIds :
          (s # o /\ StepOf(s)) =>
              /\ sessions'[o] = sessions[o]
              /\ sessions[o] # 0 => objects'[sessions[o]] = objects[sessions[o]]
      ]_vars

\* two sessions are under way, each with its own transcript
C21_Witness ==
    /\ sessions["s1"] # 0
    /\ sessions["s2"] # 0
    /\ sessions["s1"] # sessions["s2"]
    /\ Len(objects[sessions["s1"]].conversation_history) = 2
    /\ Len(objects[sessions["s2"]].conversation_history) = 1
    /\ \A i \in 1 .. 2 : objects[sessions["s1"]].conversation_history[i].turn = 1
    /\ objects[sessions["s2"]].conversation_history[1].turn = 2

\* the handler calls suspended in an external call on session object o
InFlight(o) ==
    {t \in 1 .. Len(tasks) :
        tasks[t].obj = o /\ tasks[t].pc \in {"greet", "converse", "extract"}}

\* no line of another turn stands between two lines of one turn
TurnsContiguous(h) ==
    \A i \in 1 .. Len(h), j \in 1 .. Len(h), k \in 1 .. Len(h) :
        (i < j /\ j < k /\ h[i].turn = h[k].turn) => h[j].turn = h[i].turn

\* C27: for a single session at most one external call is in flight at any
\* time, so its transcript is never appended to by two turns interleaved and
\* extraction and result saving run at most once per session.
C27_OneCallInFlight ==
    \A o \in 1 .. Len(objects) :
        /\ Cardinality(InFlight(o)) <= 1
        /\ TurnsContiguous(objects[o].conversation_history)
        /\ Cardinality({i \in 1 .. Len(objects[o].conversation_history) :
                           objects[o].conversation_history[i].complete}) <= 1
        /\ Cardinality({i \in 1 .. Len(files) : files[i] = o}) <= 1

====
